---- MODULE Spec2Model ----
(***************************************************************************)
(* Weekly staff schedule: the schedule document renderer (build_pdf) and   *)
(* the raster export pipeline (build_png) of scheduling/exports.py.        *)
(*                                                                         *)
(* Text is modelled as a sequence of one-character strings, so that        *)
(* strip, lower, split and join are computed as Python computes them.      *)
(* Lengths are exact rationals <<n, d>> in points.                         *)
(***************************************************************************)
EXTENDS Integers, Sequences, FiniteSets, TLC

VARIABLES
    \* ---- build_pdf: inputs
    slots,        \* ordered list of Slot records
    cells,        \* schedule.cells : slot key -> day key -> cell
    staff_map,    \* id -> display name
    style,        \* the style argument of the build_pdf call
    glyph_w,      \* the font metric of the call: points per character
    edits,        \* number of cell edits that produced the schedule
    \* ---- build_pdf: control and result
    pdf_pc,       \* "input" | "built"
    doc,          \* the composed document of the last build_pdf call
    font_files,   \* environment: the DejaVu font files can be loaded
    fonts,        \* pdfmetrics registry: DejaVu and DejaVuBold are registered
    \* ---- build_png: inputs, locals, environment and result
    png_pc,       \* position inside build_png
    dpi_arg,      \* the dpi argument as passed by the caller
    dpi,          \* target dpi after clamping
    render_dpi,   \* supersampled render dpi
    render_dpi2,  \* render dpi after the pixel cap, of the backend running
    last_error,   \* last caught backend error, or None
    attempts,     \* history: backends whose try block was entered, in order
    caught,       \* history: the errors caught, in order, with their backend
    gs,           \* result of shutil.which("gs"): "unset", None or a path
    pdf_path,     \* local pdf_path of the Ghostscript path (None or a name)
    out_tpl,      \* local out_tpl of the Ghostscript path (None or a name)
    files,        \* temp files present on disk
    png,          \* the image in hand: None or [dpi_meta |-> n]
    result,       \* None, [kind |-> "png", ...] or [kind |-> "error", ...]
    \* ---- _blend_hex: one call
    blend_pc,     \* "idle" | "call" | "done"
    src_hex,      \* the src_hex argument
    dst_hex,      \* the dst_hex argument
    t_arg,        \* the t argument: [num, den, f], the float f nearest num/den
    blended,      \* the returned hex string
    \* ---- repeated build_pdf calls
    renders,      \* history: the inputs and the document of every call
    \* ---- ScheduleWeek.ensure_defaults on stored JSON
    ed_pc,        \* "idle" | "call" | "done"
    raw_prior,    \* the stored cells value before the call
    raw_cells,    \* the stored cells value: [kind, items], items a mapping
    \* ---- the week editor's JSON endpoints and the slot page
    view_resp,    \* the last response: [status, error] (status 0: none yet)
    added,        \* history: per cell, the ids it holds in the order of the
                  \* requests that put them there
    \* ---- the ScheduleWeek table and the views that take a date
    weeks,        \* the week_start of every stored ScheduleWeek row
    wk_call,      \* the last call: [view, date, key, status], key the
                  \* week_start the view looked up or created
    \* ---- build_pdf's column sizing under failing text measurements
    bad_texts,    \* the strings pdfmetrics.stringWidth raises on
    sizing,       \* the outcome: [raised, shift_w, day_w]
    \* ---- two cell-write requests in flight on one week
    rq,           \* per request: [pc, req, loaded, status]
    \* ---- staff_delete over all weeks
    week_store,   \* week_start -> the cells of that ScheduleWeek row
    rewritten     \* the weeks the last staff_delete saved

pdf_vars == <<slots, cells, staff_map, style, glyph_w, edits, pdf_pc, doc,
              font_files, fonts>>
png_vars == <<png_pc, dpi_arg, dpi, render_dpi, render_dpi2, last_error,
              attempts, caught, gs, pdf_path, out_tpl, files, png, result>>
blend_vars == <<blend_pc, src_hex, dst_hex, t_arg, blended>>
\* the variables of the other operations, which build_pdf and build_png
\* leave alone
ed_vars == <<ed_pc, raw_prior, raw_cells>>
view_vars == <<view_resp, added>>
week_vars == <<weeks, wk_call>>
late_vars == <<bad_texts, sizing, rq, week_store, rewritten>>
other_vars == <<blend_vars, renders, ed_vars, view_vars, week_vars, late_vars>>
vars == <<slots, cells, staff_map, style, glyph_w, edits, pdf_pc, doc,
          png_pc, dpi_arg, dpi, render_dpi, render_dpi2, last_error,
          attempts, caught, gs, pdf_path, out_tpl, files, png, result,
          blend_pc, src_hex, dst_hex, t_arg, blended,
          font_files, fonts, renders, ed_pc, raw_prior, raw_cells,
          view_resp, added, weeks, wk_call,
          bad_texts, sizing, rq, week_store, rewritten>>

\* what each of the other operations leaves alone
blend_rest == <<pdf_vars, png_vars, renders, ed_vars, view_vars, week_vars,
                late_vars>>
render_rest == <<png_vars, blend_vars, ed_vars, view_vars, week_vars,
                 late_vars>>
ed_rest == <<pdf_vars, png_vars, blend_vars, renders, view_vars, week_vars,
             late_vars>>
view_rest == <<style, glyph_w, edits, pdf_pc, doc, font_files, fonts,
               png_vars, blend_vars, renders, ed_vars, week_vars, late_vars>>
week_rest == <<pdf_vars, png_vars, blend_vars, renders, ed_vars, view_vars,
               late_vars>>

None == "None"
\* the None of last_error, of the image in hand and of the outcome of a call
NoError == [type |-> "None", message |-> ""]
NoImage == [dpi_meta |-> -1]
NoResult == [kind |-> "none"]

(***************************************************************************)
(* Text helpers (Python str methods)                                       *)
(***************************************************************************)
IsSpace(c) == c \in {" ", "\n", "\t"}

RECURSIVE LStrip(_)
LStrip(s) ==
    IF s = <<>> THEN <<>>
    ELSE IF IsSpace(Head(s)) THEN LStrip(Tail(s)) ELSE s

RECURSIVE RStrip(_)
RStrip(s) ==
    IF s = <<>> THEN <<>>
    ELSE IF IsSpace(s[Len(s)]) THEN RStrip(SubSeq(s, 1, Len(s) - 1)) ELSE s

Strip(s) == RStrip(LStrip(s))

UpperChars == <<"A","B","C","D","E","F","G","H","I","J","K","L","M",
                "N","O","P","Q","R","S","T","U","V","W","X","Y","Z">>
LowerChars == <<"a","b","c","d","e","f","g","h","i","j","k","l","m",
                "n","o","p","q","r","s","t","u","v","w","x","y","z">>

LowerChar(c) ==
    IF \E i \in 1..Len(UpperChars) : UpperChars[i] = c
    THEN LowerChars[CHOOSE i \in 1..Len(UpperChars) : UpperChars[i] = c]
    ELSE c

Lower(s) == [i \in 1..Len(s) |-> LowerChar(s[i])]

StartsWith(s, p) == Len(s) >= Len(p) /\ SubSeq(s, 1, Len(p)) = p

Contains(s, sub) ==
    \E i \in 1..(Len(s) - Len(sub) + 1) : SubSeq(s, i, i + Len(sub) - 1) = sub

\* s.split(sep) for a non-empty separator
RECURSIVE SplitAcc(_, _, _)
SplitAcc(s, sep, cur) ==
    IF s = <<>> THEN <<cur>>
    ELSE IF StartsWith(s, sep)
         THEN <<cur>> \o SplitAcc(SubSeq(s, Len(sep) + 1, Len(s)), sep, <<>>)
         ELSE SplitAcc(Tail(s), sep, Append(cur, Head(s)))

Split(s, sep) == SplitAcc(s, sep, <<>>)

\* sep.join(parts)
RECURSIVE Join(_, _)
Join(parts, sep) ==
    IF parts = <<>> THEN <<>>
    ELSE IF Len(parts) = 1 THEN parts[1]
    ELSE parts[1] \o sep \o Join(Tail(parts), sep)

NonBlank(s) == Strip(s) # <<>>

\* s.split(): split on runs of whitespace, no empty parts
RECURSIVE WordsAcc(_, _)
WordsAcc(s, cur) ==
    IF s = <<>> THEN (IF cur = <<>> THEN <<>> ELSE <<cur>>)
    ELSE IF IsSpace(Head(s))
         THEN (IF cur = <<>> THEN <<>> ELSE <<cur>>) \o WordsAcc(Tail(s), <<>>)
         ELSE WordsAcc(Tail(s), Append(cur, Head(s)))

Words(s) == WordsAcc(s, <<>>)

BR == <<"<", "b", "r", "/", ">">>
NBSP == <<"&", "n", "b", "s", "p", ";">>

(***************************************************************************)
(* Exact rationals <<n, d>>, d > 0                                         *)
(***************************************************************************)
RECURSIVE Gcd(_, _)
Gcd(a, b) == IF b = 0 THEN a ELSE Gcd(b, a % b)

Abs(x) == IF x < 0 THEN -x ELSE x

Q(n, d) ==
    LET g == Gcd(Abs(n), d) IN
    IF g = 0 THEN <<0, 1>> ELSE <<n \div g, d \div g>>

QInt(n) == <<n, 1>>
QAdd(a, b) ==
    IF a[2] = b[2] THEN Q(a[1] + b[1], a[2])
    ELSE Q(a[1] * b[2] + b[1] * a[2], a[2] * b[2])
QSub(a, b) ==
    IF a[2] = b[2] THEN Q(a[1] - b[1], a[2])
    ELSE Q(a[1] * b[2] - b[1] * a[2], a[2] * b[2])
QMul(a, b) == Q(a[1] * b[1], a[2] * b[2])
QDiv(a, b) == Q(a[1] * b[2], a[2] * b[1])
QLt(a, b) == a[1] * b[2] < b[1] * a[2]
QLe(a, b) == a[1] * b[2] <= b[1] * a[2]
QMax(a, b) == IF QLt(a, b) THEN b ELSE a
QMin(a, b) == IF QLt(b, a) THEN b ELSE a

(***************************************************************************)
(* Program constants                                                       *)
(***************************************************************************)
\* scheduling/constants.py: the 7 day keys with their labels, Monday first
DAYS ==
    << <<"mon", <<"M","o","n">> >>, <<"tue", <<"T","u","e">> >>,
       <<"wed", <<"W","e","d">> >>, <<"thu", <<"T","h","u">> >>,
       <<"fri", <<"F","r","i">> >>, <<"sat", <<"S","a","t">> >>,
       <<"sun", <<"S","u","n">> >> >>

NDays == Len(DAYS)
DayKeys == {DAYS[i][1] : i \in 1..NDays}

\* scheduling/constants.py: the key of the PT row
PT_SLOT_KEY == <<"p", "t">>

cell_pad_x == 2
min_day_w == 82
max_day_w == 135
min_shift_w == 92
max_shift_w == 160
floor_day_w == 70
floor_shift_w == 78
header_need_pad == 12
shift_extra_pad == 6
day_extra_pad == 8

\* landscape(A4) is 297 mm wide, each margin 16 mm, 1 mm = 72/25.4 pt
page_w_mm == 297
margin_mm == 16
mm == Q(720, 254)
avail_w == QMul(QInt(page_w_mm - margin_mm - margin_mm), mm)

sat_col == 1 + 5
sun_col == 1 + 6

(***************************************************************************)
(* Bounds and input sets                                                   *)
(***************************************************************************)
MaxEdits == 2

SlotOffDay(ab) ==
    [key |-> <<"o","f","f","_","d","a","y">>,
     label |-> <<"O","f","f"," ","D","a","y">>,
     allow_block |-> ab, pt_default_time |-> <<"7","-","1","1">>]
SlotPT(ab) ==
    [key |-> <<"p","t">>, label |-> <<"P","T">>,
     allow_block |-> ab, pt_default_time |-> <<"7","-","1","1">>]
Slot10am(ab) ==
    [key |-> <<"1","0","a","m">>, label |-> <<"1","0","a","m">>,
     allow_block |-> ab, pt_default_time |-> <<"7","-","1","1">>]

\* the seeded slot list: only the PT slot allows blocking; a blocked cell of
\* another slot dates from before allow_block was switched off on that slot
SlotLists ==
    { << SlotOffDay(FALSE), SlotPT(TRUE), Slot10am(FALSE) >> }

Alice == <<"A","l","i","c","e">>
Bob == <<"B","o","b">>
StaffMaps == { (1 :> Alice) @@ (2 :> Bob) }
\* ids a stored cell may hold: two known staff and one id without a Staff row
CellIds == {1, 2, 9}
PtTimes == { <<>>, <<"7","-","1","1">>, <<" ","8","-","1","2"," ">> }
GlyphWidths == {5, 20}
Styles == {1, 2}
\* days on which the enumerated schedules differ from the defaults
InputDays == {"mon", "sat", "sun"}

(***************************************************************************)
(* ScheduleWeek.ensure_defaults on a fresh week                            *)
(***************************************************************************)
DefaultCell(slot) ==
    [staff |-> <<>>, blocked |-> FALSE,
     pt_time |-> IF slot.key = <<"p","t">>
                 THEN (IF slot.pt_default_time # <<>> THEN slot.pt_default_time
                       ELSE <<"7","-","1","1">>)
                 ELSE <<>>]

SlotKeys(sl) == {sl[i].key : i \in 1..Len(sl)}
SlotByKey(sl, k) == sl[CHOOSE i \in 1..Len(sl) : sl[i].key = k]

FreshCells(sl) ==
    [k \in SlotKeys(sl) |-> [d \in DayKeys |-> DefaultCell(SlotByKey(sl, k))]]

(***************************************************************************)
(* build_pdf: data helpers                                                 *)
(***************************************************************************)
\* mutant: a blocked cell's staff list is not counted
slot_row_has_any_skip_blocked(cs, slot_key) ==
    \E i \in 1..NDays :
        /\ cs[slot_key][DAYS[i][1]].staff # <<>>
        /\ ~cs[slot_key][DAYS[i][1]].blocked

slot_row_has_any(cs, slot_key) ==
    \E i \in 1..NDays : cs[slot_key][DAYS[i][1]].staff # <<>>

visible_slots(sl, cs) ==
    SelectSeq(sl, LAMBDA s : slot_row_has_any(cs, s.key))

\* mutant: the leave test comes before the off test
slot_kind_leave_first(slot) ==
    LET k == Lower(Strip(slot.key))
        l == Lower(Strip(slot.label))
    IN  IF k = PT_SLOT_KEY \/ k = <<"p","t">> \/ l = <<"p","t">>
           \/ StartsWith(l, <<"p","t"," ">>)
        THEN "pt"
        ELSE IF Contains(k, <<"p","h">>) \/ Contains(k, <<"a","l">>)
                \/ Contains(l, <<"p","h">>) \/ Contains(l, <<"a","l">>)
        THEN "leave"
        ELSE IF Contains(k, <<"o","f","f">>) \/ Contains(l, <<"o","f","f">>)
        THEN "off"
        ELSE "work"

slot_kind(slot) ==
    LET k == Lower(Strip(slot.key))
        l == Lower(Strip(slot.label))
    IN  IF k = PT_SLOT_KEY \/ k = <<"p","t">> \/ l = <<"p","t">>
           \/ StartsWith(l, <<"p","t"," ">>)
        THEN "pt"
        ELSE IF Contains(k, <<"o","f","f">>) \/ Contains(l, <<"o","f","f">>)
        THEN "off"
        ELSE IF Contains(k, <<"p","h">>) \/ Contains(k, <<"a","l">>)
                \/ Contains(l, <<"p","h">>) \/ Contains(l, <<"a","l">>)
        THEN "leave"
        ELSE "work"

label_clean(s0) ==
    LET s == Strip(s0) IN
    IF s = <<"P","H","*","/","A","L","@">> THEN <<"P","H","/","A","L">>
    ELSE IF s = <<"O","f","f"," ","D","a","y">>
    THEN <<"R","e","s","t"," ","D","a","y">>
    ELSE s

format_names(names) ==
    IF names = <<>> THEN <<>>
    ELSE Join(SelectSeq(names, NonBlank), BR)

\* mutant: the pt_time tag is dropped
format_pt_names_untagged(names, pt_time) == format_names(names)

format_pt_names(names, pt_time) ==
    IF names = <<>> THEN <<>>
    ELSE IF pt_time = <<>> THEN format_names(names)
    ELSE LET kept == SelectSeq(names, NonBlank)
             tagged == [i \in 1..Len(kept) |->
                           kept[i] \o <<" ", "(">> \o pt_time \o <<")">>]
         IN  Join(tagged, BR)

body_left_inset == 2
body_inset == [i \in 1..(6 * body_left_inset) |-> NBSP[((i - 1) % 6) + 1]]

indent_each_line(html) ==
    IF Strip(html) = <<>> THEN <<>>
    ELSE LET lines == Split(html, BR) IN
         Join([i \in 1..Len(lines) |-> body_inset \o lines[i]], BR)

\* staff_ids and names of a cell (lines 611-613)
IsDigitId(x) == x >= 0
staff_ids_of(cell) == SelectSeq(cell.staff, IsDigitId)
\* mutant: an id without a name yields an empty name instead of nothing
names_of_blank_for_unknown(cell, sm) ==
    LET ids == staff_ids_of(cell)
    IN  [j \in 1..Len(ids) |->
            IF ids[j] \in DOMAIN sm THEN sm[ids[j]] ELSE <<>>]

names_of(cell, sm) ==
    LET ids == staff_ids_of(cell)
        known == SelectSeq(ids, LAMBDA i : i \in DOMAIN sm /\ sm[i] # <<>>)
    IN  [j \in 1..Len(known) |-> sm[known[j]]]

(***************************************************************************)
(* build_pdf: column widths (lines 368-445)                                *)
(***************************************************************************)
RECURSIVE SeqMax(_, _)
SeqMax(seq, init) ==
    IF seq = <<>> THEN init
    ELSE SeqMax(Tail(seq), IF Head(seq) > init THEN Head(seq) ELSE init)

RECURSIVE Flatten(_)
Flatten(seqs) == IF seqs = <<>> THEN <<>> ELSE Head(seqs) \o Flatten(Tail(seqs))

\* pdfmetrics.stringWidth under the metric in use: g points per character
stringWidth(text, g) == Len(text) * g

clamp(v, lo, hi) == IF QLt(v, lo) THEN lo ELSE IF QLt(hi, v) THEN hi ELSE v

\* ScheduleWeek.date_for_day_key(...).strftime('%d %b') for the week of 1 Jan
Digits == <<"0","1","2","3","4","5","6","7","8","9">>
date_text(i) == <<"0", Digits[i + 1], " ", "J", "a", "n">>

day_header_cells ==
    [i \in 1..NDays |-> DAYS[i][2] \o <<"\n">> \o date_text(i)]

short_date(s0) ==
    LET s == Strip(s0)
        parts == Words(s)
    IN  IF s = <<>> THEN <<>>
        ELSE IF Len(parts) >= 2 THEN parts[1] \o <<" ">> \o parts[2]
        ELSE s

header_parts(h) ==
    LET ls == Split(h, <<"\n">>)
        stripped == [i \in 1..Len(ls) |-> Strip(ls[i])]
    IN  SelectSeq(stripped, LAMBDA x : x # <<>>)

\* day and date_txt of each header cell (lines 388-390)
header_texts ==
    [i \in 1..NDays |->
        LET parts == header_parts(day_header_cells[i]) IN
        [day |-> IF parts # <<>> THEN parts[1] ELSE <<>>,
         date_txt |-> IF Len(parts) >= 2 THEN short_date(parts[2]) ELSE <<>>]]

header_need(i, g) ==
    stringWidth(header_texts[i].day, g) + stringWidth(header_texts[i].date_txt, g)
    + header_need_pad

\* the text a cell will show, before indentation (lines 405-418)
preview_of(kind, cell, sm) ==
    LET names == names_of(cell, sm) IN
    IF names = <<>> THEN <<>>
    ELSE IF kind = "pt"
    THEN format_pt_names(names, Strip(cell.pt_time))
    ELSE format_names(names)

preview_line_widths(slot, kind, cell, sm, g) ==
    IF slot.allow_block /\ cell.blocked THEN <<>>
    ELSE LET preview == preview_of(kind, cell, sm) IN
         IF preview = <<>> THEN <<>>
         ELSE LET lines == SelectSeq(Split(preview, BR), NonBlank) IN
              [i \in 1..Len(lines) |-> stringWidth(lines[i], g)]

shift_w_natural(vis, g) ==
    LET shift_max ==
            SeqMax([i \in 1..Len(vis) |-> stringWidth(label_clean(vis[i].label), g)],
                   stringWidth(<<"S","h","i","f","t">>, g))
    IN  clamp(QInt(shift_max + (cell_pad_x * 2) + shift_extra_pad),
              QInt(min_shift_w), QInt(max_shift_w))

day_w_natural(vis, kinds, cs, sm, g) ==
    LET hdr == SeqMax([i \in 1..NDays |-> header_need(i, g)], 0)
        per_slot == [r \in 1..Len(vis) |->
                        Flatten([i \in 1..NDays |->
                            preview_line_widths(vis[r], kinds[r],
                                                cs[vis[r].key][DAYS[i][1]], sm, g)])]
        day_max == SeqMax(Flatten(per_slot), hdr)
    IN  clamp(QInt(day_max + (cell_pad_x * 2) + day_extra_pad),
              QInt(min_day_w), QInt(max_day_w))

table_width_of(sw, dw) == QAdd(sw, QMul(dw, QInt(NDays)))

\* mutant: the remaining width is shared among one column too many
fit_to_page_extra_column(sw, dw) ==
    IF QLt(avail_w, table_width_of(sw, dw))
    THEN [shift_w |-> sw,
          day_w |-> QMin(dw, QDiv(QSub(avail_w, sw), QInt(NDays + 1)))]
    ELSE [shift_w |-> sw, day_w |-> dw]

\* "Fit to page width" (lines 432-445)
fit_to_page(sw, dw) ==
    IF QLt(avail_w, table_width_of(sw, dw))
    THEN LET day_w_fit == QDiv(QSub(avail_w, sw), QInt(NDays))
             dw1 == IF QLt(day_w_fit, QInt(min_day_w))
                    THEN QMax(QInt(floor_day_w), day_w_fit)
                    ELSE QMin(dw, day_w_fit)
             tw1 == table_width_of(sw, dw1)
         IN  IF QLt(avail_w, tw1)
             THEN LET scale == QDiv(avail_w, QMax(tw1, QInt(1)))
                      sw2 == QMax(QInt(floor_shift_w), QMul(sw, scale))
                      dw2 == QMax(QInt(floor_day_w), QMul(dw1, scale))
                  IN  [shift_w |-> sw2, day_w |-> dw2]
             ELSE [shift_w |-> sw, day_w |-> dw1]
    ELSE [shift_w |-> sw, day_w |-> dw]

(***************************************************************************)
(* build_pdf: body rows (lines 581-634)                                    *)
(***************************************************************************)
\* one body cell: the text handed to the table and whether the cell is
\* appended to empty_cells
\* mutant: the blocked test is missing
render_cell_ignores_blocked(slot, kind, cell, sm) ==
    LET names_list == names_of(cell, sm) IN
    IF names_list = <<>>
    THEN [text |-> <<>>, empty |-> TRUE]
    ELSE [text |-> indent_each_line(
                       IF kind = "pt"
                       THEN format_pt_names(names_list, Strip(cell.pt_time))
                       ELSE format_names(names_list)),
          empty |-> FALSE]

render_cell(slot, kind, cell, sm) ==
    IF slot.allow_block /\ cell.blocked
    THEN [text |-> <<>>, empty |-> TRUE]
    ELSE LET names_list == names_of(cell, sm) IN
         IF kind = "pt"
         THEN IF names_list = <<>>
              THEN [text |-> <<>>, empty |-> TRUE]
              ELSE [text |-> indent_each_line(
                                 format_pt_names(names_list, Strip(cell.pt_time))),
                    empty |-> FALSE]
         ELSE IF names_list = <<>>
              THEN [text |-> <<>>, empty |-> TRUE]
              ELSE [text |-> indent_each_line(format_names(names_list)),
                    empty |-> FALSE]

\* the 7 day cells of one row, as [text, empty] records
row_cells(slot, kind, cs, sm) ==
    [i \in 1..NDays |-> render_cell(slot, kind, cs[slot.key][DAYS[i][1]], sm)]

body_row(slot, kind, rc) ==
    [key |-> slot.key,
     kind |-> kind,
     label |-> label_clean(slot.label),
     cells |-> [i \in 1..NDays |-> rc[i].text]]

\* empty_cells as (row_index, col_index) pairs, in the order they are appended
empty_cells_of(rcs) ==
    Flatten([r \in 1..Len(rcs) |->
        LET cols == SelectSeq([i \in 1..NDays |-> i], LAMBDA i : rcs[r][i].empty)
        IN  [j \in 1..Len(cols) |-> <<r, cols[j]>>]])

(***************************************************************************)
(* build_pdf: table style background commands (lines 639-704)              *)
(***************************************************************************)
Bg(bg, c0, r0, c1, r1) ==
    [op |-> "BACKGROUND", c0 |-> c0, r0 |-> r0, c1 |-> c1, r1 |-> r1, bg |-> <<bg>>]
RowBgs(bgs, c0, r0, c1, r1) ==
    [op |-> "ROWBACKGROUNDS", c0 |-> c0, r0 |-> r0, c1 |-> c1, r1 |-> r1, bg |-> bgs]

\* mutant: leave rows get no tint of their own
row_bg_of_leave_untinted(kind) ==
    IF kind = "off" THEN "offday_row_bg"
    ELSE IF kind = "pt" THEN "pt_row_bg"
    ELSE None

row_bg_of(kind) ==
    IF kind = "off" THEN "offday_row_bg"
    ELSE IF kind = "leave" THEN "leave_row_bg"
    ELSE IF kind = "pt" THEN "pt_row_bg"
    ELSE None

\* the commands the loop over visible_slots adds for row row_i (lines 675-696)
row_style_cmds(slot, kind, row_i, cs) ==
    LET row_bg == row_bg_of(kind)
        whole == IF row_bg # None THEN <<Bg(row_bg, 0, row_i, -1, row_i)>> ELSE <<>>
        days == IF slot.allow_block
                THEN SelectSeq([i \in 1..NDays |-> i],
                        LAMBDA i : cs[slot.key][DAYS[i][1]].blocked /\ row_bg # None)
                ELSE <<>>
    IN  whole \o [j \in 1..Len(days) |-> Bg(row_bg, days[j], row_i, days[j], row_i)]

\* pt_empty_cells is created empty and never appended to (line 584)
pt_empty_cells == <<>>

empty_style_cmds(empty_cells) ==
    [j \in 1..Len(empty_cells) |->
        Bg("empty_cell_bg", empty_cells[j][2], empty_cells[j][1],
           empty_cells[j][2], empty_cells[j][1])]

\* mutant: the empty-cell commands are added before the weekend columns
table_style_of_empty_first(vis, kinds, cs, empty_cells) ==
    << Bg("header_row_bg", 0, 0, -1, 0),
       RowBgs(<<"stripe_a", "stripe_b">>, 0, 1, -1, -1) >>
    \o empty_style_cmds(empty_cells)
    \o << Bg("weekend_bg", sat_col, 1, sat_col, -1),
          Bg("weekend_bg", sun_col, 1, sun_col, -1) >>
    \o Flatten([r \in 1..Len(vis) |-> row_style_cmds(vis[r], kinds[r], r, cs)])

\* mutant: the weekend columns are added after the row tints
table_style_of_weekend_late(vis, kinds, cs, empty_cells) ==
    << Bg("header_row_bg", 0, 0, -1, 0),
       RowBgs(<<"stripe_a", "stripe_b">>, 0, 1, -1, -1) >>
    \o Flatten([r \in 1..Len(vis) |-> row_style_cmds(vis[r], kinds[r], r, cs)])
    \o << Bg("weekend_bg", sat_col, 1, sat_col, -1),
          Bg("weekend_bg", sun_col, 1, sun_col, -1) >>
    \o empty_style_cmds(empty_cells)

table_style_of(vis, kinds, cs, empty_cells) ==
    << Bg("header_row_bg", 0, 0, -1, 0),
       RowBgs(<<"stripe_a", "stripe_b">>, 0, 1, -1, -1),
       Bg("weekend_bg", sat_col, 1, sat_col, -1),
       Bg("weekend_bg", sun_col, 1, sun_col, -1) >>
    \o Flatten([r \in 1..Len(vis) |-> row_style_cmds(vis[r], kinds[r], r, cs)])
    \o [j \in 1..Len(pt_empty_cells) |->
           Bg("pt_empty_bg", pt_empty_cells[j][2], pt_empty_cells[j][1],
              pt_empty_cells[j][2], pt_empty_cells[j][1])]
    \o empty_style_cmds(empty_cells)

\* reportlab draws the background commands in order: the last one covering a
\* cell is the one seen.  Columns 0..NDays, rows 0..nrows, -1 is the last.
Covers(cmd, c, r, nrows) ==
    LET c1 == IF cmd.c1 < 0 THEN NDays + 1 + cmd.c1 ELSE cmd.c1
        r1 == IF cmd.r1 < 0 THEN nrows + 1 + cmd.r1 ELSE cmd.r1
    IN  cmd.c0 <= c /\ c <= c1 /\ cmd.r0 <= r /\ r <= r1

final_background(bk, c, r, nrows) ==
    LET hits == {i \in 1..Len(bk) : Covers(bk[i], c, r, nrows)} IN
    IF hits = {} THEN None
    ELSE LET last == CHOOSE i \in hits : \A j \in hits : j <= i
             cmd == bk[last]
         IN  cmd.bg[((r - cmd.r0) % Len(cmd.bg)) + 1]

(***************************************************************************)
(* build_pdf                                                               *)
(***************************************************************************)
\* _try_register_fonts: the registry after the call; a failed registration
\* is swallowed and leaves the registry as it was
try_register_fonts(registry, files_ok) == registry \/ files_ok

build_pdf(sl, cs, sm, thm, st, g) ==
    LET vis == visible_slots(sl, cs)
        kinds == [r \in 1..Len(vis) |-> slot_kind(vis[r])]
        sw0 == shift_w_natural(vis, g)
        dw0 == day_w_natural(vis, kinds, cs, sm, g)
        fit == fit_to_page(sw0, dw0)
        rcs == [r \in 1..Len(vis) |-> row_cells(vis[r], kinds[r], cs, sm)]
        empty_cells == empty_cells_of(rcs)
    IN  [visible |-> [r \in 1..Len(vis) |-> vis[r].key],
         rows |-> [r \in 1..Len(vis) |-> body_row(vis[r], kinds[r], rcs[r])],
         empty_cells |-> empty_cells,
         bk |-> table_style_of(vis, kinds, cs, empty_cells),
         natural_w |-> table_width_of(sw0, dw0),
         shift_w |-> fit.shift_w,
         day_w |-> fit.day_w,
         table_width |-> table_width_of(fit.shift_w, fit.day_w)]

(***************************************************************************)
(* The renderer applied to enumerated schedules                            *)
(***************************************************************************)
BlendIdle ==
    /\ blend_pc = "idle" /\ src_hex = <<>> /\ dst_hex = <<>>
    /\ t_arg = [num |-> 0, den |-> 1] /\ blended = <<>>

\* no operation other than build_pdf and build_png is in progress
EdIdle == ed_pc = "idle" /\ raw_prior = <<>> /\ raw_cells = <<>>

NoResponse == [status |-> 0, error |-> ""]
NoCall == [view |-> "none", date |-> 0, key |-> 0, status |-> 0]
NoSizing ==
    [done |-> FALSE, raised |-> FALSE, shift_w |-> <<0, 1>>, day_w |-> <<0, 1>>]
MetricIdle == bad_texts = {} /\ sizing = NoSizing
RaceIdle == rq = <<>>
DeleteIdle == week_store = <<>> /\ rewritten = {}
LateIdle == MetricIdle /\ RaceIdle /\ DeleteIdle
WeekIdle == weeks = {} /\ wk_call = NoCall /\ LateIdle
ViewIdle == view_resp = NoResponse /\ added = <<>> /\ WeekIdle
OtherIdle == BlendIdle /\ renders = <<>> /\ EdIdle /\ ViewIdle

PngIdle ==
    /\ png_pc = "idle" /\ dpi_arg = 0 /\ dpi = 0 /\ render_dpi = 0
    /\ render_dpi2 = 0 /\ last_error = NoError /\ attempts = <<>>
    /\ caught = <<>> /\ gs = "unset"
    /\ pdf_path = None /\ out_tpl = None /\ files = {} /\ png = NoImage
    /\ result = NoResult

PdfInit ==
    /\ slots \in SlotLists
    /\ cells = FreshCells(slots)
    /\ staff_map \in StaffMaps
    /\ style = 1
    /\ glyph_w = 0
    /\ edits = 0
    /\ pdf_pc = "input"
    /\ doc = None
    /\ font_files = TRUE /\ fonts = FALSE
    /\ PngIdle
    /\ OtherIdle

\* a stored cell gains a staff id
InputStaff(k, d, id) ==
    /\ pdf_pc = "input" /\ edits < MaxEdits
    /\ \A i \in 1..Len(cells[k][d].staff) : cells[k][d].staff[i] # id
    /\ cells' = [cells EXCEPT ![k][d].staff = Append(@, id)]
    /\ edits' = edits + 1
    /\ UNCHANGED <<slots, staff_map, style, glyph_w, pdf_pc, doc, font_files, fonts>>
    /\ UNCHANGED png_vars
    /\ UNCHANGED other_vars

\* a stored cell is marked blocked
InputBlocked(k, d) ==
    /\ pdf_pc = "input" /\ edits < MaxEdits
    /\ ~cells[k][d].blocked
    /\ cells' = [cells EXCEPT ![k][d].blocked = TRUE]
    /\ edits' = edits + 1
    /\ UNCHANGED <<slots, staff_map, style, glyph_w, pdf_pc, doc, font_files, fonts>>
    /\ UNCHANGED png_vars
    /\ UNCHANGED other_vars

\* the PT row's cell gets another pt_time
InputPtTime(k, d, t) ==
    /\ pdf_pc = "input" /\ edits < MaxEdits
    /\ k = PT_SLOT_KEY /\ cells[k][d].pt_time # t
    /\ cells' = [cells EXCEPT ![k][d].pt_time = t]
    /\ edits' = edits + 1
    /\ UNCHANGED <<slots, staff_map, style, glyph_w, pdf_pc, doc, font_files, fonts>>
    /\ UNCHANGED png_vars
    /\ UNCHANGED other_vars

\* one call build_pdf(schedule, slots, staff_map, theme, style) under a metric
BuildPdf(st, g) ==
    /\ pdf_pc = "input"
    /\ style' = st
    /\ glyph_w' = g
    /\ fonts' = try_register_fonts(fonts, font_files)
    /\ doc' = build_pdf(slots, cells, staff_map, None, st, g)
    /\ pdf_pc' = "built"
    /\ UNCHANGED <<slots, cells, staff_map, edits, font_files>>
    /\ UNCHANGED png_vars
    /\ UNCHANGED other_vars

PdfNext ==
    \/ \E k \in SlotKeys(slots), d \in InputDays, id \in CellIds : InputStaff(k, d, id)
    \/ \E k \in SlotKeys(slots), d \in InputDays : InputBlocked(k, d)
    \/ \E k \in SlotKeys(slots), d \in InputDays, t \in PtTimes : InputPtTime(k, d, t)
    \/ \E st \in Styles, g \in GlyphWidths : BuildPdf(st, g)

SpecPdf == PdfInit /\ [][PdfNext]_vars

(***************************************************************************)
(* Properties of build_pdf                                                 *)
(***************************************************************************)
Built == pdf_pc = "built"
NRows == Len(doc.rows)
RowSlot(r) == SlotByKey(slots, doc.rows[r].key)
CellAt(r, i) == cells[doc.rows[r].key][DAYS[i][1]]
HasRow(k) == \E r \in 1..NRows : doc.rows[r].key = k
AnyStaff(k) == \E d \in DayKeys : cells[k][d].staff # <<>>

\* C1: a slot has a body row if and only if at least one of its 7 day cells
\* has a non-empty staff list; an emitted row has all 7 day cells, the days
\* without staff as blank cells, and the rows keep the slot order.
C1_RowIffAnyStaff ==
    Built =>
        /\ \A i \in 1..Len(slots) : HasRow(slots[i].key) <=> AnyStaff(slots[i].key)
        /\ \A r \in 1..NRows :
              /\ Len(doc.rows[r].cells) = 7
              /\ \A i \in 1..7 : CellAt(r, i).staff = <<>> => doc.rows[r].cells[i] = <<>>
        /\ \A r1, r2 \in 1..NRows : r1 # r2 => doc.rows[r1].key # doc.rows[r2].key

\* C1 witness: one slot is omitted, another is emitted with a blank day
C1_Witness ==
    /\ Built
    /\ \E i \in 1..Len(slots) : ~AnyStaff(slots[i].key) /\ ~HasRow(slots[i].key)
    /\ \E r \in 1..NRows : \E i, j \in 1..7 :
          /\ CellAt(r, i).staff # <<>>
          /\ CellAt(r, j).staff = <<>> /\ doc.rows[r].cells[j] = <<>>

\* C2 as stated: every cell with blocked = true is rendered empty, whatever
\* slot it belongs to.
C2_BlockedAlwaysEmpty ==
    Built =>
        \A r \in 1..NRows : \A i \in 1..NDays :
            CellAt(r, i).blocked => doc.rows[r].cells[i] = <<>>

\* C2 amended: a cell with blocked = true whose slot has allow_block = true is
\* rendered empty, whatever staff data is set on it.
C2_BlockedEmptyWhenAllowed ==
    Built =>
        \A r \in 1..NRows : \A i \in 1..NDays :
            (CellAt(r, i).blocked /\ RowSlot(r).allow_block)
                => doc.rows[r].cells[i] = <<>>

\* C2 witness: a displayed blocked cell of a blockable slot that holds a known
\* staff member and is rendered empty
C2_Witness ==
    /\ Built
    /\ \E r \in 1..NRows : \E i \in 1..NDays :
          /\ CellAt(r, i).blocked /\ RowSlot(r).allow_block
          /\ names_of(CellAt(r, i), staff_map) # <<>>
          /\ doc.rows[r].cells[i] = <<>>

\* C3: when the natural width shift_w + 7*day_w exceeds the available page
\* width, the final shift_w + 7*day_w equals it exactly and the final widths
\* are at least their floors (78 and 70), hence positive.
C3_FitsPageExactly ==
    (Built /\ QLt(avail_w, doc.natural_w)) =>
        /\ QAdd(doc.shift_w, QMul(doc.day_w, QInt(7))) = avail_w
        /\ doc.table_width = avail_w
        /\ QLe(QInt(78), doc.shift_w)
        /\ QLe(QInt(70), doc.day_w)

\* C3 witness: a build whose natural width exceeded the page and was fitted
C3_Witness ==
    /\ Built
    /\ QLt(avail_w, doc.natural_w)
    /\ QLt(doc.table_width, doc.natural_w)
    /\ doc.table_width = avail_w

Shown(lines) ==
    Join([j \in 1..Len(lines) |-> NBSP \o NBSP \o lines[j]], BR)

\* C9: in a PT row each displayed name is followed by " (pt_time)" when the
\* cell's pt_time (surrounding blanks removed) is non-empty and is the bare
\* name otherwise; in rows of other kinds the names are always bare.
C9_PtTimeSuffix ==
    Built =>
        \A r \in 1..NRows : \A i \in 1..NDays :
            LET cell == CellAt(r, i)
                names == names_of(cell, staff_map)
                t == Strip(cell.pt_time)
                bare == Shown(names)
                tagged == Shown([j \in 1..Len(names) |->
                                    names[j] \o <<" ", "(">> \o t \o <<")">>])
            IN  (names # <<>> /\ ~(RowSlot(r).allow_block /\ cell.blocked)) =>
                    doc.rows[r].cells[i] =
                        IF doc.rows[r].kind = "pt" /\ t # <<>> THEN tagged ELSE bare

\* C9 witness: the PT row shows "Bob (7-11)" for staff [Bob] with pt_time 7-11
C9_Witness ==
    /\ Built
    /\ \E r \in 1..NRows : \E i \in 1..NDays :
          /\ doc.rows[r].kind = "pt"
          /\ CellAt(r, i).staff = <<2>>
          /\ CellAt(r, i).pt_time = <<"7","-","1","1">>
          /\ doc.rows[r].cells[i] =
                NBSP \o NBSP \o <<"B","o","b"," ","(","7","-","1","1",")">>

\* C10 as stated: the style argument selects the joining of several names, so
\* a cell with two or more names is rendered differently under style 1 and 2.
C10_StyleChangesJoin ==
    Built =>
        \A r \in 1..NRows : \A i \in 1..NDays :
            (Len(names_of(CellAt(r, i), staff_map)) >= 2
             /\ ~(RowSlot(r).allow_block /\ CellAt(r, i).blocked)) =>
                build_pdf(slots, cells, staff_map, None, 1, glyph_w).rows[r].cells[i]
                # build_pdf(slots, cells, staff_map, None, 2, glyph_w).rows[r].cells[i]

(***************************************************************************)
(* build_png: resolution handling (lines 784, 823-868)                     *)
(***************************************************************************)
Min2(a, b) == IF a < b THEN a ELSE b
Max2(a, b) == IF a > b THEN a ELSE b

min_target_dpi == 200
max_target_dpi == 900
default_dpi == 600
max_render_dpi == 1200
max_pixels == 26000000
\* supersample = 1.25, already inside [1.0, 1.5]
supersample == <<5, 4>>

\* dpi = max(200, min(int(dpi or 600), 900)); 0 stands for a missing value
target_dpi(arg) ==
    Max2(min_target_dpi, Min2(IF arg = 0 THEN default_dpi ELSE arg, max_target_dpi))

\* render_dpi = int(min(1200, max(200, int(dpi * supersample))))
supersampled_dpi(d) ==
    Min2(max_render_dpi, Max2(min_target_dpi, (d * supersample[1]) \div supersample[2]))

\* page sizes in tenths of a point: page.rect of the A4 landscape PDF as
\* PyMuPDF reports it, and the 842 x 595 the other two backends assume
fitz_page == [w |-> 8419, h |-> 5953]
a4_landscape_page == [w |-> 8420, h |-> 5950]

\* floor(sqrt(k)) by bisection
RECURSIVE ISqrtIn(_, _, _)
ISqrtIn(k, lo, hi) ==
    IF lo >= hi THEN lo
    ELSE LET mid == (lo + hi + 1) \div 2 IN
         IF mid * mid <= k THEN ISqrtIn(k, mid, hi) ELSE ISqrtIn(k, lo, mid - 1)

\* floor(p * f1 * f2 * ... / a), factor by factor to stay inside 32 bits
RECURSIVE MulChainDiv(_, _, _, _)
MulChainDiv(q, r, fs, a) ==
    IF fs = <<>> THEN q
    ELSE MulChainDiv(q * Head(fs) + (r * Head(fs)) \div a,
                     (r * Head(fs)) % a, Tail(fs), a)

\* int(sqrt(max_pixels / max(w_pt * h_pt, 1.0)) * 72.0), with w, h in tenths:
\* floor(sqrt(72 * 72 * 100 * max_pixels / (w * h))), 72*72*100 = 40*36*36*10
max_zoom_dpi(page) ==
    LET area == Max2(page.w * page.h, 100)
        k == MulChainDiv(max_pixels \div area, max_pixels % area,
                         <<40, 36, 36, 10>>, area)
    IN  ISqrtIn(k, 0, 4 * max_render_dpi)

\* mutant: the render dpi is handed on without the pixel cap
cap_render_dpi_uncapped(page, rd) == rd

cap_render_dpi(page, rd) ==
    LET px_w == (page.w * rd) \div 720
        px_h == (page.h * rd) \div 720
        pixels == px_w * px_h
    IN  IF pixels <= max_pixels THEN rd
        ELSE Max2(min_target_dpi, Min2(rd, max_zoom_dpi(page)))

\* an image is its DPI metadata; the page always has non-white content (the
\* header band), so _tighten_png_height always re-saves with dpi = pad_dpi
tighten_png_height(img, pad_dpi) == [dpi_meta |-> pad_dpi]

\* mutant: the resized image is saved without the target dpi
downsample_png_keeps_meta(img, src_dpi, dst_dpi) == img

downsample_png(img, src_dpi, dst_dpi) ==
    IF src_dpi <= dst_dpi THEN img ELSE [dpi_meta |-> dst_dpi]

\* tighten, then downsample when render_dpi2 != dpi (lines 889-892)
post_process(img, rd2, d) ==
    LET t == tighten_png_height(img, rd2) IN
    IF rd2 # d THEN downsample_png(t, rd2, d) ELSE t

(***************************************************************************)
(* build_png: the backend chain (lines 870-993)                            *)
(***************************************************************************)
Err(t, m) == [type |-> t, message |-> m]

\* mutant: the message leaves out the underlying error
png_error_message_no_cause(le) ==
    IF le # NoError
    THEN [text |-> "PNG rendering failed.", fix_options |-> {},
          original_type |-> None, original_message |-> None]
    ELSE [text |-> "", fix_options |-> {},
          original_type |-> None, original_message |-> None]

\* the argument of the final RuntimeError (lines 983-993)
png_error_message(le) ==
    IF le # NoError
    THEN [text |-> "PNG rendering failed.",
          fix_options |-> {"pip install PyMuPDF", "install Ghostscript (gs)",
                           "install poppler-utils + pdf2image"},
          original_type |-> le.type, original_message |-> le.message]
    ELSE [text |-> "", fix_options |-> {},
          original_type |-> None, original_message |-> None]

MinDpiArg == 150
MaxDpiArg == 950
\* the dpi argument: 0 for a missing value, or a number
DpiArgs == {0} \cup (MinDpiArg..MaxDpiArg)

TmpPdf == "tmpXXXX.pdf"
OutTpl == "schedule_pid_%03d.png"
\* out_tpl.replace("%03d", "001")
Page1(tpl) == IF tpl = OutTpl THEN "schedule_pid_001.png" ELSE tpl
GsPath == "/usr/bin/gs"
\* a freshly rendered page, before any dpi is saved into it
RawImage == [dpi_meta |-> 0]

\* no build_pdf call is in progress
PdfCallIdle ==
    /\ style = 1 /\ glyph_w = 0 /\ edits = 0 /\ pdf_pc = "idle" /\ doc = None
    /\ font_files = TRUE /\ fonts = FALSE

PdfIdle ==
    /\ slots = <<>> /\ cells = <<>> /\ staff_map = <<>>
    /\ PdfCallIdle

PngInit ==
    /\ PdfIdle
    /\ OtherIdle
    /\ png_pc = "call"
    /\ dpi_arg \in DpiArgs
    /\ dpi = 0 /\ render_dpi = 0 /\ render_dpi2 = 0
    /\ last_error = NoError /\ attempts = <<>> /\ caught = <<>> /\ gs = "unset"
    /\ pdf_path = None /\ out_tpl = None /\ files = {} /\ png = NoImage
    /\ result = NoResult

\* except Exception as e: last_error = e
Catch(backend, e) ==
    /\ last_error' = e
    /\ caught' = Append(caught, [backend |-> backend, error |-> e])

NoCatch == UNCHANGED <<last_error, caught>>

\* lines 784-870: clamp the target, build the PDF, choose the render dpi
PngStart ==
    /\ png_pc = "call"
    /\ dpi' = target_dpi(dpi_arg)
    /\ render_dpi' = supersampled_dpi(target_dpi(dpi_arg))
    /\ last_error' = NoError
    /\ png_pc' = "fitz"
    /\ UNCHANGED <<dpi_arg, render_dpi2, attempts, caught, gs, pdf_path, out_tpl,
                   files, png, result>>
    /\ fonts' = try_register_fonts(fonts, font_files)
    /\ UNCHANGED <<slots, cells, staff_map, style, glyph_w, edits, pdf_pc, doc,
                   font_files>>
    /\ UNCHANGED other_vars

\* A) lines 873-883: import fitz, open the document, load page 0, cap the dpi
FitzOpen(ok) ==
    /\ png_pc = "fitz"
    /\ attempts' = Append(attempts, "fitz")
    /\ IF ok
       THEN /\ render_dpi2' = cap_render_dpi(fitz_page, render_dpi)
            /\ png_pc' = "fitz_render"
            /\ NoCatch
       ELSE /\ Catch("fitz", Err("ModuleNotFoundError", "No module named 'fitz'"))
            /\ png_pc' = "gs_which"
            /\ UNCHANGED render_dpi2
    /\ UNCHANGED <<dpi_arg, dpi, render_dpi, gs, pdf_path, out_tpl, files, png, result>>
    /\ UNCHANGED pdf_vars
    /\ UNCHANGED other_vars

\* A) lines 885-887: render the page to a pixmap
FitzRender(ok) ==
    /\ png_pc = "fitz_render"
    /\ IF ok
       THEN /\ png' = RawImage
            /\ png_pc' = "fitz_post"
            /\ NoCatch
       ELSE /\ Catch("fitz", Err("RuntimeError", "fitz: cannot render page"))
            /\ png_pc' = "gs_which"
            /\ UNCHANGED png
    /\ UNCHANGED <<dpi_arg, dpi, render_dpi, render_dpi2, attempts, gs, pdf_path,
                   out_tpl, files, result>>
    /\ UNCHANGED pdf_vars
    /\ UNCHANGED other_vars

\* A) lines 889-894: tighten, downsample, return
FitzPost(ok) ==
    /\ png_pc = "fitz_post"
    /\ IF ok
       THEN /\ png' = post_process(png, render_dpi2, dpi)
            /\ result' = [kind |-> "png", backend |-> "fitz",
                          image |-> post_process(png, render_dpi2, dpi)]
            /\ png_pc' = "done"
            /\ NoCatch
       ELSE /\ Catch("fitz", Err("OSError", "fitz: cannot process image"))
            /\ png' = NoImage
            /\ png_pc' = "gs_which"
            /\ UNCHANGED result
    /\ UNCHANGED <<dpi_arg, dpi, render_dpi, render_dpi2, attempts, gs, pdf_path,
                   out_tpl, files>>
    /\ UNCHANGED pdf_vars
    /\ UNCHANGED other_vars

\* B) lines 904-912: look for the gs binary, cap the dpi
GsWhich(found) ==
    /\ png_pc = "gs_which"
    /\ gs' = IF found THEN GsPath ELSE None
    /\ IF found
       THEN /\ render_dpi2' = cap_render_dpi(a4_landscape_page, render_dpi)
            /\ pdf_path' = None
            /\ out_tpl' = None
            /\ attempts' = Append(attempts, "gs")
            /\ png_pc' = "gs_tmp"
       ELSE /\ png_pc' = "pdf2image"
            /\ UNCHANGED <<render_dpi2, pdf_path, out_tpl, attempts>>
    /\ NoCatch
    /\ UNCHANGED <<dpi_arg, dpi, render_dpi, files, png, result>>
    /\ UNCHANGED pdf_vars
    /\ UNCHANGED other_vars

\* B) line 914: NamedTemporaryFile(suffix=".pdf", delete=False)
GsTempFile(ok) ==
    /\ png_pc = "gs_tmp"
    /\ IF ok
       THEN /\ files' = files \cup {TmpPdf}
            /\ png_pc' = "gs_write"
            /\ NoCatch
       ELSE /\ Catch("gs", Err("OSError", "cannot create temp file"))
            /\ png_pc' = "gs_finally"
            /\ UNCHANGED files
    /\ UNCHANGED <<dpi_arg, dpi, render_dpi, render_dpi2, attempts, gs, pdf_path,
                   out_tpl, png, result>>
    /\ UNCHANGED pdf_vars
    /\ UNCHANGED other_vars

\* B) lines 915-919: write and flush the PDF, then pdf_path = f.name and out_tpl
GsWrite(ok) ==
    /\ png_pc = "gs_write"
    /\ IF ok
       THEN /\ pdf_path' = TmpPdf
            /\ out_tpl' = OutTpl
            /\ png_pc' = "gs_run"
            /\ NoCatch
       ELSE /\ Catch("gs", Err("OSError", "No space left on device"))
            /\ png_pc' = "gs_finally"
            /\ UNCHANGED <<pdf_path, out_tpl>>
    /\ UNCHANGED <<dpi_arg, dpi, render_dpi, render_dpi2, attempts, gs, files,
                   png, result>>
    /\ UNCHANGED pdf_vars
    /\ UNCHANGED other_vars

\* B) lines 920-935: run gs; it may leave the page-1 PNG behind even on failure
GsRun(ok, wrote) ==
    /\ png_pc = "gs_run"
    /\ files' = IF wrote THEN files \cup {Page1(out_tpl)} ELSE files
    /\ IF ok
       THEN /\ png_pc' = "gs_read"
            /\ NoCatch
       ELSE /\ Catch("gs", Err("CalledProcessError", "gs returned non-zero exit status"))
            /\ png_pc' = "gs_finally"
    /\ UNCHANGED <<dpi_arg, dpi, render_dpi, render_dpi2, attempts, gs, pdf_path,
                   out_tpl, png, result>>
    /\ UNCHANGED pdf_vars
    /\ UNCHANGED other_vars

\* B) lines 937-942: read page 1, tighten, downsample; the return then runs
\* the finally block
GsRead(ok) ==
    /\ png_pc = "gs_read"
    /\ IF ok /\ Page1(out_tpl) \in files
       THEN /\ png' = post_process(RawImage, render_dpi2, dpi)
            /\ NoCatch
       ELSE /\ Catch("gs", IF Page1(out_tpl) \in files
                           THEN Err("OSError", "gs: cannot process image")
                           ELSE Err("FileNotFoundError", "No such file or directory"))
            /\ UNCHANGED png
    /\ png_pc' = "gs_finally"
    /\ UNCHANGED <<dpi_arg, dpi, render_dpi, render_dpi2, attempts, gs, pdf_path,
                   out_tpl, files, result>>
    /\ UNCHANGED pdf_vars
    /\ UNCHANGED other_vars

\* mutant: the Ghostscript image is not returned
GsFinally_no_return ==
    /\ png_pc = "gs_finally"
    /\ files' = files \ ((IF pdf_path # None THEN {pdf_path} ELSE {})
                         \cup (IF out_tpl # None THEN {Page1(out_tpl)} ELSE {}))
    /\ png_pc' = "pdf2image"
    /\ UNCHANGED <<dpi_arg, dpi, render_dpi, render_dpi2, last_error, attempts,
                   caught, gs, pdf_path, out_tpl, png, result>>
    /\ UNCHANGED pdf_vars
    /\ UNCHANGED other_vars

\* B) lines 945-957: the finally block, then the pending return or the fall
\* through to the next backend
GsFinally ==
    /\ png_pc = "gs_finally"
    /\ files' = files \ ((IF pdf_path # None THEN {pdf_path} ELSE {})
                         \cup (IF out_tpl # None THEN {Page1(out_tpl)} ELSE {}))
    /\ IF png # NoImage
       THEN /\ result' = [kind |-> "png", backend |-> "gs", image |-> png]
            /\ png_pc' = "done"
       ELSE /\ png_pc' = "pdf2image"
            /\ UNCHANGED result
    /\ UNCHANGED <<dpi_arg, dpi, render_dpi, render_dpi2, last_error, attempts,
                   caught, gs, pdf_path, out_tpl, png>>
    /\ UNCHANGED pdf_vars
    /\ UNCHANGED other_vars

\* C) lines 960-964: import pdf2image, cap the dpi
Pdf2ImageImport(ok) ==
    /\ png_pc = "pdf2image"
    /\ attempts' = Append(attempts, "pdf2image")
    /\ IF ok
       THEN /\ render_dpi2' = cap_render_dpi(a4_landscape_page, render_dpi)
            /\ png_pc' = "pdf2image_convert"
            /\ NoCatch
       ELSE /\ Catch("pdf2image", Err("ModuleNotFoundError", "No module named 'pdf2image'"))
            /\ png_pc' = "raise"
            /\ UNCHANGED render_dpi2
    /\ UNCHANGED <<dpi_arg, dpi, render_dpi, gs, pdf_path, out_tpl, files, png, result>>
    /\ UNCHANGED pdf_vars
    /\ UNCHANGED other_vars

\* C) lines 966-975: convert page 1 and save it with dpi = render_dpi2
Pdf2ImageConvert(ok) ==
    /\ png_pc = "pdf2image_convert"
    /\ IF ok
       THEN /\ png' = [dpi_meta |-> render_dpi2]
            /\ png_pc' = "pdf2image_post"
            /\ NoCatch
       ELSE /\ Catch("pdf2image", Err("PDFInfoNotInstalledError", "Unable to get page count"))
            /\ png_pc' = "raise"
            /\ UNCHANGED png
    /\ UNCHANGED <<dpi_arg, dpi, render_dpi, render_dpi2, attempts, gs, pdf_path,
                   out_tpl, files, result>>
    /\ UNCHANGED pdf_vars
    /\ UNCHANGED other_vars

\* C) lines 976-979: tighten, downsample, return
Pdf2ImagePost(ok) ==
    /\ png_pc = "pdf2image_post"
    /\ IF ok
       THEN /\ png' = post_process(png, render_dpi2, dpi)
            /\ result' = [kind |-> "png", backend |-> "pdf2image",
                          image |-> post_process(png, render_dpi2, dpi)]
            /\ png_pc' = "done"
            /\ NoCatch
       ELSE /\ Catch("pdf2image", Err("OSError", "pdf2image: cannot process image"))
            /\ png' = NoImage
            /\ png_pc' = "raise"
            /\ UNCHANGED result
    /\ UNCHANGED <<dpi_arg, dpi, render_dpi, render_dpi2, attempts, gs, pdf_path,
                   out_tpl, files>>
    /\ UNCHANGED pdf_vars
    /\ UNCHANGED other_vars

\* lines 983-993: every backend failed
PngRaise ==
    /\ png_pc = "raise"
    /\ result' = [kind |-> "error", type |-> "RuntimeError",
                  message |-> png_error_message(last_error)]
    /\ png_pc' = "done"
    /\ UNCHANGED <<dpi_arg, dpi, render_dpi, render_dpi2, last_error, attempts,
                   caught, gs, pdf_path, out_tpl, files, png>>
    /\ UNCHANGED pdf_vars
    /\ UNCHANGED other_vars

PngNext ==
    \/ PngStart
    \/ \E ok \in BOOLEAN : FitzOpen(ok)
    \/ \E ok \in BOOLEAN : FitzRender(ok)
    \/ \E ok \in BOOLEAN : FitzPost(ok)
    \/ \E found \in BOOLEAN : GsWhich(found)
    \/ \E ok \in BOOLEAN : GsTempFile(ok)
    \/ \E ok \in BOOLEAN : GsWrite(ok)
    \/ \E ok \in BOOLEAN, wrote \in BOOLEAN : GsRun(ok, wrote)
    \/ \E ok \in BOOLEAN : GsRead(ok)
    \/ GsFinally
    \/ \E ok \in BOOLEAN : Pdf2ImageImport(ok)
    \/ \E ok \in BOOLEAN : Pdf2ImageConvert(ok)
    \/ \E ok \in BOOLEAN : Pdf2ImagePost(ok)
    \/ PngRaise

SpecPng == PngInit /\ [][PngNext]_vars

(***************************************************************************)
(* Claims about build_png                                                  *)
(***************************************************************************)
Backends == <<"fitz", "gs", "pdf2image">>
Rank(b) == CHOOSE i \in 1..Len(Backends) : Backends[i] = b
Attempted(b) == \E i \in 1..Len(attempts) : attempts[i] = b
Failed(b) == \E i \in 1..Len(caught) : caught[i].backend = b
Returned == png_pc = "done" /\ result.kind = "png"
Raised == png_pc = "done" /\ result.kind = "error"
Remedies == {"pip install PyMuPDF", "install Ghostscript (gs)",
             "install poppler-utils + pdf2image"}

\* C4: the backends are attempted in the order PyMuPDF, Ghostscript,
\* pdf2image, each at most once; Ghostscript only when the gs binary was
\* found; a backend only after every earlier one failed or was unavailable;
\* the backend that returns the image is the last one attempted.
C4_BackendOrder ==
    /\ \A i, j \in 1..Len(attempts) :
          i < j => Rank(attempts[i]) < Rank(attempts[j])
    /\ Attempted("gs") => gs = GsPath
    /\ \A i \in 1..Len(attempts) : \A k \in 1..Len(Backends) :
          k < Rank(attempts[i]) =>
              \/ Failed(Backends[k])
              \/ Backends[k] = "gs" /\ gs = None
    /\ Returned =>
          /\ attempts[Len(attempts)] = result.backend
          /\ ~Failed(result.backend)

\* C4 witness: PyMuPDF and Ghostscript failed in turn and pdf2image returned
C4_Witness ==
    /\ Returned
    /\ result.backend = "pdf2image"
    /\ attempts = Backends
    /\ Failed("fitz") /\ Failed("gs")

\* C5: the error is raised only after every available backend failed, and
\* its message names the three remedies and carries the type and the message
\* of the last backend error caught; while a backend remains, a caught error
\* produces no outcome.
C5_ErrorAfterAllFailed ==
    /\ Raised =>
          /\ Failed("fitz")
          /\ gs = None \/ Failed("gs")
          /\ Failed("pdf2image")
          /\ result.message.fix_options = Remedies
          /\ result.message.original_type = caught[Len(caught)].error.type
          /\ result.message.original_message = caught[Len(caught)].error.message
    /\ (caught # <<>> /\ png_pc \notin {"raise", "done"}) => result = NoResult

\* C5 witness: all three backends failed and the error names the last failure
C5_Witness ==
    /\ Raised
    /\ Len(caught) = 3
    /\ caught[1].backend = "fitz" /\ caught[2].backend = "gs"
    /\ caught[3].error.type = "PDFInfoNotInstalledError"
    /\ result.message.original_type = "PDFInfoNotInstalledError"

\* C6 as stated: once the Ghostscript path has been left, by returning its
\* image or by falling through to pdf2image, no temp file it created remains.
C6_TempFilesRemoved ==
    (Attempted("gs") /\ png_pc \in {"pdf2image", "pdf2image_convert",
                                    "pdf2image_post", "raise", "done"})
        => files = {}

digit_bits == 15
Base == 32768

RECURSIVE Pow2(_)
Pow2(k) == IF k = 0 THEN 1 ELSE 2 * Pow2(k - 1)

RECURSIVE BNorm(_)
BNorm(b) == IF b # <<>> /\ b[Len(b)] = 0 THEN BNorm(SubSeq(b, 1, Len(b) - 1)) ELSE b

RECURSIVE BFromNat(_)
BFromNat(n) == IF n = 0 THEN <<>> ELSE <<n % Base>> \o BFromNat(n \div Base)

RECURSIVE BToNat(_)
BToNat(b) == IF b = <<>> THEN 0 ELSE Head(b) + Base * BToNat(Tail(b))

RECURSIVE BAddC(_, _, _)
BAddC(a, b, c) ==
    IF a = <<>> /\ b = <<>> THEN (IF c = 0 THEN <<>> ELSE <<c>>)
    ELSE LET x == IF a = <<>> THEN 0 ELSE Head(a)
             y == IF b = <<>> THEN 0 ELSE Head(b)
             s == x + y + c
         IN  <<s % Base>> \o BAddC(IF a = <<>> THEN a ELSE Tail(a),
                                   IF b = <<>> THEN b ELSE Tail(b), s \div Base)
BAdd(a, b) == BAddC(a, b, 0)

\* a - b for a >= b
RECURSIVE BSubC(_, _, _)
BSubC(a, b, c) ==
    IF a = <<>> THEN <<>>
    ELSE LET y == IF b = <<>> THEN 0 ELSE Head(b)
             s == Head(a) - y - c
         IN  <<IF s < 0 THEN s + Base ELSE s>>
             \o BSubC(Tail(a), IF b = <<>> THEN b ELSE Tail(b),
                      IF s < 0 THEN 1 ELSE 0)
BSub(a, b) == BNorm(BSubC(a, b, 0))

\* a < b, comparing from the top digit down
RECURSIVE BLtFrom(_, _, _)
BLtFrom(a, b, i) ==
    IF i = 0 THEN FALSE
    ELSE IF a[i] # b[i] THEN a[i] < b[i]
    ELSE BLtFrom(a, b, i - 1)
BLt(a, b) ==
    IF Len(a) # Len(b) THEN Len(a) < Len(b) ELSE BLtFrom(a, b, Len(a))

\* a * n for a small number n < 2^15
RECURSIVE BMulSmallC(_, _, _)
BMulSmallC(a, n, c) ==
    IF a = <<>> THEN (IF c = 0 THEN <<>> ELSE <<c>>)
    ELSE LET p == Head(a) * n + c IN
         <<p % Base>> \o BMulSmallC(Tail(a), n, p \div Base)
BMulSmall(a, n) == IF n = 0 THEN <<>> ELSE BMulSmallC(a, n, 0)

RECURSIVE BMul(_, _)
BMul(a, b) ==
    IF a = <<>> \/ b = <<>> THEN <<>>
    ELSE LET rest == BMul(a, Tail(b)) IN
         BAdd(BMulSmall(a, Head(b)), IF rest = <<>> THEN rest ELSE <<0>> \o rest)

\* long division of a by the small number n < 2^15, from the top digit
\* down: <<quotient, remainder>>
RECURSIVE BDivSmallFrom(_, _, _, _, _)
BDivSmallFrom(a, n, i, q, r) ==
    IF i = 0 THEN <<BNorm(q), r>>
    ELSE LET r2 == r * Base + a[i] IN
         BDivSmallFrom(a, n, i - 1, <<r2 \div n>> \o q, r2 % n)
BDivSmall(a, n) == BDivSmallFrom(a, n, Len(a), <<>>, 0)

\* a * 2^k and floor(a / 2^k)
BShl(a, k) ==
    IF a = <<>> THEN a
    ELSE [i \in 1..(k \div digit_bits) |-> 0] \o BMulSmall(a, Pow2(k % digit_bits))
BShr(a, k) ==
    IF k \div digit_bits >= Len(a) THEN <<>>
    ELSE BDivSmall(SubSeq(a, (k \div digit_bits) + 1, Len(a)), Pow2(k % digit_bits))[1]

RECURSIVE DigitBitLen(_)
DigitBitLen(d) == IF d = 0 THEN 0 ELSE 1 + DigitBitLen(d \div 2)
BitLen(a) ==
    IF a = <<>> THEN 0 ELSE digit_bits * (Len(a) - 1) + DigitBitLen(a[Len(a)])

mant_bits == 53

FZero == [sg |-> 1, m |-> <<>>, e |-> 0]

\* round sg * m * 2^e to 53 bits, nearest, ties to even
FRound(sg, m, e) ==
    IF m = <<>> THEN FZero
    ELSE IF BitLen(m) <= mant_bits THEN [sg |-> sg, m |-> m, e |-> e]
    ELSE LET k == BitLen(m) - mant_bits
             q == BShr(m, k)
             rem == BSub(m, BShl(q, k))
             half == BShl(<<1>>, k - 1)
             up == BLt(half, rem) \/ (rem = half /\ q[1] % 2 = 1)
         IN  [sg |-> sg, m |-> IF up THEN BAdd(q, <<1>>) ELSE q, e |-> e + k]

\* float(n) for a small integer n
FInt(n) == FRound(IF n < 0 THEN -1 ELSE 1, BFromNat(IF n < 0 THEN -n ELSE n), 0)

div_guard_bits == 64
\* n / d for small integers n >= 0, d > 0: the quotient to 64 fractional bits,
\* doubled and made odd when a remainder is left, then rounded
FDivInt(n, d) ==
    LET qr == BDivSmall(BShl(BFromNat(n), div_guard_bits), d)
        q2 == BAdd(BMulSmall(qr[1], 2), IF qr[2] # 0 THEN <<1>> ELSE <<>>)
    IN  FRound(1, q2, -(div_guard_bits + 1))

FNeg(a) == [a EXCEPT !.sg = -a.sg]

FAdd(a, b) ==
    IF a.m = <<>> THEN b
    ELSE IF b.m = <<>> THEN a
    ELSE LET e == IF a.e < b.e THEN a.e ELSE b.e
             x == BShl(a.m, a.e - e)
             y == BShl(b.m, b.e - e)
         IN  IF a.sg = b.sg THEN FRound(a.sg, BAdd(x, y), e)
             ELSE IF BLt(x, y) THEN FRound(b.sg, BSub(y, x), e)
             ELSE FRound(a.sg, BSub(x, y), e)

FSub(a, b) == FAdd(a, FNeg(b))

FMul(a, b) == FRound(a.sg * b.sg, BMul(a.m, b.m), a.e + b.e)

\* a < b
FLt(a, b) == LET d == FSub(a, b) IN d.m # <<>> /\ d.sg = -1

FMin(a, b) == IF FLt(b, a) THEN b ELSE a
FMax(a, b) == IF FLt(a, b) THEN b ELSE a

\* int(a): truncation toward zero (results here fit a machine integer)
FTrunc(a) ==
    IF a.m = <<>> THEN 0
    ELSE IF a.e >= 0 THEN a.sg * BToNat(BShl(a.m, a.e))
    ELSE a.sg * BToNat(BShr(a.m, -a.e))

(***************************************************************************)
(* _hex_to_rgb01 and _blend_hex (exports.py lines 65-81)                   *)
(***************************************************************************)
HexDigits == <<"0","1","2","3","4","5","6","7","8","9","A","B","C","D","E","F">>
HexLower == <<"0","1","2","3","4","5","6","7","8","9","a","b","c","d","e","f">>

\* int(c, 16) for one character
HexVal(c) ==
    (CHOOSE i \in 1..16 : HexDigits[i] = c \/ HexLower[i] = c) - 1

\* int(h[i:i+2], 16)
HexByte(h, i) == 16 * HexVal(h[i]) + HexVal(h[i + 1])

RECURSIVE LStripHash(_)
LStripHash(h) ==
    IF h # <<>> /\ Head(h) = "#" THEN LStripHash(Tail(h)) ELSE h

\* the channel bytes read by _hex_to_rgb01, before the division by 255.0
hex_channels(h0) ==
    LET h1 == LStripHash(Strip(h0))
        h == IF Len(h1) = 3
             THEN <<h1[1], h1[1], h1[2], h1[2], h1[3], h1[3]>>
             ELSE h1
    IN  <<HexByte(h, 1), HexByte(h, 3), HexByte(h, 5)>>

channel_max == 255

hex_to_rgb01(h) ==
    LET ch == hex_channels(h) IN
    [i \in 1..3 |-> FDivInt(ch[i], channel_max)]

\* "%02X" % n
Hex02(n) == <<HexDigits[(n \div 16) + 1], HexDigits[(n % 16) + 1]>>

\* a blend that rounds each channel to the nearest integer
blend_channel_rounded(s, d, t) ==
    FTrunc(FAdd(FMul(FAdd(s, FMul(FSub(d, s), t)), FInt(channel_max)), FDivInt(1, 2)))

\* int((s + (d - s) * t) * 255)
blend_channel(s, d, t) ==
    FTrunc(FMul(FAdd(s, FMul(FSub(d, s), t)), FInt(channel_max)))

\* t = max(0.0, min(float(t or 0.0), 1.0))
clamp_t(t) == FMax(FInt(0), FMin(t, FInt(1)))

blend_hex(src, dst, t0) ==
    LET t == clamp_t(t0)
        s == hex_to_rgb01(src)
        d == hex_to_rgb01(dst)
    IN  <<"#">> \o Hex02(blend_channel(s[1], d[1], t))
              \o Hex02(blend_channel(s[2], d[2], t))
              \o Hex02(blend_channel(s[3], d[3], t))

(***************************************************************************)
(* One call of _blend_hex                                                  *)
(***************************************************************************)
BlendColors ==
    { <<"#","0","0","0","0","0","0">>, <<"#","F","F","F","F","F","F">>,
      <<"#","0","1","0","1","0","1">>, <<"#","2","1","2","1","2","1">>,
      <<"#","f","d","e","6","8","a">>, <<"#","D","1","4","B","5","7">>,
      <<"#","0","A","0","A","0","A">>, <<" ","#","a","b","c">> }
\* mix factors num/den as written in the calls, some outside [0, 1]
BlendFactors ==
    { <<0, 1>>, <<1, 1>>, <<1, 10>>, <<8, 100>>, <<1, 2>>, <<92, 100>>,
      <<3, 2>>, <<-1, 2>> }

\* the float a literal num/den denotes
FLit(num, den) ==
    IF num < 0 THEN FNeg(FDivInt(-num, den)) ELSE FDivInt(num, den)

BlendInit ==
    /\ PdfIdle /\ PngIdle /\ renders = <<>> /\ EdIdle /\ ViewIdle
    /\ blend_pc = "call"
    /\ src_hex \in BlendColors
    /\ dst_hex \in BlendColors
    /\ t_arg \in {[num |-> f[1], den |-> f[2]] : f \in BlendFactors}
    /\ blended = <<>>

Blend ==
    /\ blend_pc = "call"
    /\ blended' = blend_hex(src_hex, dst_hex, FLit(t_arg.num, t_arg.den))
    /\ blend_pc' = "done"
    /\ UNCHANGED <<src_hex, dst_hex, t_arg>>
    /\ UNCHANGED blend_rest

BlendNext == Blend

SpecBlend == BlendInit /\ [][BlendNext]_vars

\* the mix factor after clamping into [0, 1], as the exact fraction
ClampedNum == IF t_arg.num < 0 THEN 0
              ELSE IF t_arg.num > t_arg.den THEN t_arg.den ELSE t_arg.num

\* C11 as stated: at t = 0 every channel of the result is the source's, at
\* t = 1 every channel is the destination's.
C11_BlendEndpoints ==
    blend_pc = "done" =>
        /\ ClampedNum = 0 => hex_channels(blended) = hex_channels(src_hex)
        /\ ClampedNum = t_arg.den => hex_channels(blended) = hex_channels(dst_hex)

\* C12 as stated: every channel of the result is an integer nearest to the
\* linear blend s + (d - s) * t of the source and destination channels, that
\* is, within one half of it.
C12_BlendRoundsToNearest ==
    blend_pc = "done" =>
        \A i \in 1..3 :
            LET s == hex_channels(src_hex)[i]
                d == hex_channels(dst_hex)[i]
                c == hex_channels(blended)[i]
                exact_by_den == s * t_arg.den + (d - s) * ClampedNum
                diff == c * t_arg.den - exact_by_den
            IN  2 * diff <= t_arg.den /\ -2 * diff <= t_arg.den

(***************************************************************************)
(* Repeated build_pdf calls in one process, with edits of one cell in      *)
(* between.  The font metric is that of the body font and does not change  *)
(* during a run; the font registry is the only state build_pdf keeps.      *)
(***************************************************************************)
MaxRenders == 2
RenderSlotKey == <<"1","0","a","m">>
RenderDay == "mon"
RenderIds == {1, 2}

RenderInit ==
    /\ slots \in SlotLists
    /\ cells = FreshCells(slots)
    /\ staff_map \in StaffMaps
    /\ style = 1
    /\ glyph_w \in GlyphWidths
    /\ edits = 0
    /\ pdf_pc = "input"
    /\ doc = None
    /\ font_files \in BOOLEAN
    /\ fonts = FALSE
    /\ renders = <<>>
    /\ PngIdle /\ BlendIdle /\ EdIdle /\ ViewIdle

\* the inputs of a call, as the caller passes them
RenderInputs(st) ==
    [slots |-> slots, cells |-> cells, staff_map |-> staff_map,
     theme |-> None, style |-> st]

\* a faulty variant: the document depends on how many calls came before
Render_hidden_state(st) ==
    /\ pdf_pc = "input" /\ Len(renders) < MaxRenders
    /\ style' = st
    /\ fonts' = try_register_fonts(fonts, font_files)
    /\ doc' = build_pdf(slots, cells, staff_map, None, st, glyph_w + Len(renders))
    /\ renders' = Append(renders,
          [inputs |-> RenderInputs(st),
           doc |-> build_pdf(slots, cells, staff_map, None, st, glyph_w + Len(renders))])
    /\ UNCHANGED <<slots, cells, staff_map, glyph_w, edits, pdf_pc, font_files>>
    /\ UNCHANGED render_rest

\* one more call build_pdf(schedule, slots, staff_map, theme, style); the
\* fonts are Helvetica and Helvetica-Bold (lines 234-235) whatever the
\* registry holds, so the metric glyph_w is the same at every call
Render(st) ==
    /\ pdf_pc = "input" /\ Len(renders) < MaxRenders
    /\ style' = st
    /\ fonts' = try_register_fonts(fonts, font_files)
    /\ doc' = build_pdf(slots, cells, staff_map, None, st, glyph_w)
    /\ renders' = Append(renders,
          [inputs |-> RenderInputs(st),
           doc |-> build_pdf(slots, cells, staff_map, None, st, glyph_w)])
    /\ UNCHANGED <<slots, cells, staff_map, glyph_w, edits, pdf_pc, font_files>>
    /\ UNCHANGED render_rest

\* the schedule is edited between two calls
RenderEdit(id) ==
    /\ InputStaff(RenderSlotKey, RenderDay, id)
    /\ UNCHANGED renders

RenderNext ==
    \/ \E st \in Styles : Render(st)
    \/ \E id \in RenderIds : RenderEdit(id)

SpecRender == RenderInit /\ [][RenderNext]_vars

EmptyMap == <<>>
Dict(f) == [kind |-> "dict", items |-> f]
NotDict == [kind |-> "other", items |-> EmptyMap]
IsDict(v) == v.kind = "dict"

\* d.get(k), NotDict standing for a missing key as well as for a non-mapping
Get(m, k) == IF k \in DOMAIN m THEN m[k] ELSE NotDict

\* mutant: the value is assigned whether or not the entry exists
SetDefault_assign(m, field, value) ==
    [f \in DOMAIN m \cup {field} |-> IF f = field THEN value ELSE m[f]]

\* cell.setdefault(field, value)
SetDefault(m, field, value) ==
    IF field \in DOMAIN m THEN m
    ELSE [f \in DOMAIN m \cup {field} |-> IF f = field THEN value ELSE m[f]]

\* a faulty variant: a non-mapping cell is left as it is
ensure_cell_keeps_other(slot, old) ==
    IF ~IsDict(old) THEN old
    ELSE LET c1 == SetDefault(old.items, "staff", <<>>)
             c2 == SetDefault(c1, "blocked", FALSE)
         IN  Dict(IF slot.key = <<"p","t">>
                  THEN SetDefault(c2, "pt_time",
                           IF slot.pt_default_time # <<>> THEN slot.pt_default_time
                           ELSE <<"7","-","1","1">>)
                  ELSE c2)

\* lines 119-126: the cell stored back for one (slot, day)
ensure_cell(slot, old) ==
    LET c0 == IF IsDict(old) THEN old.items ELSE EmptyMap
        c1 == SetDefault(c0, "staff", <<>>)
        c2 == SetDefault(c1, "blocked", FALSE)
    IN  Dict(IF slot.key = <<"p","t">>
             THEN SetDefault(c2, "pt_time",
                      IF slot.pt_default_time # <<>> THEN slot.pt_default_time
                      ELSE <<"7","-","1","1">>)
             ELSE c2)

\* lines 115-128: one slot of the loop
ensure_slot(m, slot) ==
    LET e0 == IF slot.key \in DOMAIN m /\ IsDict(m[slot.key])
              THEN m[slot.key].items ELSE EmptyMap
        e1 == [d \in DOMAIN e0 \cup DayKeys |->
                  IF d \in DayKeys THEN ensure_cell(slot, Get(e0, d)) ELSE e0[d]]
    IN  [k \in DOMAIN m \cup {slot.key} |-> IF k = slot.key THEN Dict(e1) ELSE m[k]]

RECURSIVE ensure_slots(_, _)
ensure_slots(m, sl) ==
    IF sl = <<>> THEN m ELSE ensure_slots(ensure_slot(m, Head(sl)), Tail(sl))

ensure_defaults(raw, sl) ==
    Dict(ensure_slots(IF IsDict(raw) THEN raw.items ELSE EmptyMap, sl))

\* stored values the call may find
EdPtTime == <<"9","-","1">>
EdSlotLists ==
    { << [SlotPT(TRUE) EXCEPT !.pt_default_time = t], Slot10am(FALSE) >> :
         t \in { <<"7","-","1","1">>, <<"8","-","1","2">>, <<>> } }
EdCells ==
    { Dict(EmptyMap),
      Dict("staff" :> <<1>>),
      Dict("blocked" :> TRUE),
      Dict("pt_time" :> EdPtTime),
      Dict(("staff" :> <<1, 2>>) @@ ("blocked" :> FALSE) @@ ("pt_time" :> EdPtTime)) }
EdSlotEntries ==
    {NotDict, Dict(EmptyMap), Dict("mon" :> NotDict)}
        \cup {Dict("mon" :> c) : c \in EdCells}
EdPriors ==
    {NotDict, Dict(EmptyMap)}
        \cup {Dict(<<"p","t">> :> e) : e \in EdSlotEntries}
        \cup {Dict((<<"p","t">> :> e1) @@ (<<"1","0","a","m">> :> e2)) :
                 e1 \in EdSlotEntries, e2 \in EdSlotEntries}

EdInit ==
    /\ slots \in EdSlotLists /\ cells = <<>> /\ staff_map = <<>>
    /\ PdfCallIdle /\ PngIdle /\ BlendIdle /\ renders = <<>> /\ ViewIdle
    /\ ed_pc = "call"
    /\ raw_prior \in EdPriors
    /\ raw_cells = raw_prior

EnsureDefaults ==
    /\ ed_pc = "call"
    /\ raw_cells' = ensure_defaults(raw_cells, slots)
    /\ ed_pc' = "done"
    /\ UNCHANGED raw_prior
    /\ UNCHANGED ed_rest

EdNext == EnsureDefaults

SpecDefaults == EdInit /\ [][EdNext]_vars

EdCellBefore(k, d) ==
    LET e == IF IsDict(raw_prior) THEN Get(raw_prior.items, k) ELSE NotDict
        c == IF IsDict(e) THEN Get(e.items, d) ELSE NotDict
    IN  IF IsDict(c) THEN c.items ELSE EmptyMap

\* every (slot, day) of the given slots resolves to a mapping with a staff and
\* a blocked entry, an entry the cell already had being kept and a missing
\* one set to the empty list and to false
EdWellFormed(k, d) ==
    /\ IsDict(raw_cells) /\ k \in DOMAIN raw_cells.items
    /\ IsDict(raw_cells.items[k]) /\ d \in DOMAIN raw_cells.items[k].items
    /\ LET c == raw_cells.items[k].items[d]
           before == EdCellBefore(k, d)
       IN  /\ IsDict(c)
           /\ {"staff", "blocked"} \subseteq DOMAIN c.items
           /\ c.items["staff"] = IF "staff" \in DOMAIN before THEN before["staff"] ELSE <<>>
           /\ c.items["blocked"] = IF "blocked" \in DOMAIN before THEN before["blocked"] ELSE FALSE

EdPtTimeAt(k, d) == raw_cells.items[k].items[d].items["pt_time"]

\* C14 as stated: after ensure_defaults every cell of every given slot is
\* well formed and, on the PT slot, has a pt_time entry that is the slot's
\* pt_default_time when the cell had none.
C14_DefaultsFromSlot ==
    ed_pc = "done" =>
        \A i \in 1..Len(slots) : \A d \in DayKeys :
            /\ EdWellFormed(slots[i].key, d)
            /\ slots[i].key = <<"p","t">> =>
                 /\ "pt_time" \in DOMAIN raw_cells.items[slots[i].key].items[d].items
                 /\ "pt_time" \notin DOMAIN EdCellBefore(slots[i].key, d) =>
                        EdPtTimeAt(slots[i].key, d) = slots[i].pt_default_time

\* C14 amended: the same, the pt_time of a PT cell that had none being the
\* slot's pt_default_time, or "7-11" when the slot's pt_default_time is empty.
C14_DefaultsFromSlotOrFallback ==
    ed_pc = "done" =>
        \A i \in 1..Len(slots) : \A d \in DayKeys :
            /\ EdWellFormed(slots[i].key, d)
            /\ slots[i].key = <<"p","t">> =>
                 /\ "pt_time" \in DOMAIN raw_cells.items[slots[i].key].items[d].items
                 /\ "pt_time" \notin DOMAIN EdCellBefore(slots[i].key, d) =>
                        EdPtTimeAt(slots[i].key, d) =
                            IF slots[i].pt_default_time # <<>>
                            THEN slots[i].pt_default_time
                            ELSE <<"7","-","1","1">>

\* C14 witness: the stored PT entry held a non-mapping Monday cell and the
\* 10am entry was not a mapping; both are well formed after the call and the
\* PT cell took the slot's 8-12
C14_Witness ==
    /\ ed_pc = "done"
    /\ IsDict(raw_prior)
    /\ Get(raw_prior.items, <<"p","t">>) = Dict("mon" :> NotDict)
    /\ Get(raw_prior.items, <<"1","0","a","m">>) = NotDict
    /\ EdWellFormed(<<"p","t">>, "mon") /\ EdWellFormed(<<"1","0","a","m">>, "sun")
    /\ EdPtTimeAt(<<"p","t">>, "mon") = <<"8","-","1","2">>

(***************************************************************************)
(* views.py: api_cell_update, api_cell_block and the slot page             *)
(***************************************************************************)
\* scheduling/constants.py: the keys of the off-day and the leave slot
EXCLUSIVE_SLOT_KEYS ==
    { <<"o","f","f","_","d","a","y">>, <<"p","h","_","a","l">> }

SlotPhAl(ab) ==
    [key |-> <<"p","h","_","a","l">>,
     label |-> <<"P","H","*","/","A","L","@">>,
     allow_block |-> ab, pt_default_time |-> <<"7","-","1","1">>]

\* the seeded slots in sort_order; only the PT slot allows blocking
ViewSlots ==
    << SlotOffDay(FALSE), SlotPT(TRUE), SlotPhAl(FALSE), Slot10am(FALSE) >>

\* a payload without staff_id
NoStaffId == 0
\* a staff id without a Staff row
UnknownStaffId == 9
Carol == <<"C","a","r","o","l">>
OrderStaffMaps == { (1 :> Alice) @@ (2 :> Bob) @@ (3 :> Carol) }
\* "funday" is not a day key, "11am" is not the key of a slot
BadDay == "funday"
BadSlotKey == <<"1","1","a","m">>
ViewDays == {"mon", "sat"}
ViewPtTime == <<"8","-","1","2"," ">>
\* the slots whose allow_block the slot page is asked to change
EditSlotKeys == { <<"1","0","a","m">> }

\* requests to api_cell_update: <<slot_key, day_key, action, staff_id>>
StaffReqs(ks, ds, ids) == ks \X ds \X {"add", "remove"} \X ids
PtReqs ==
    { <<PT_SLOT_KEY, "mon", "set_pt_time", NoStaffId>>,
      <<<<"1","0","a","m">>, "mon", "set_pt_time", NoStaffId>> }
BadReqs ==
    { <<<<"1","0","a","m">>, "mon", "add", NoStaffId>>,
      <<<<"1","0","a","m">>, "mon", "add", UnknownStaffId>>,
      <<<<"1","0","a","m">>, BadDay, "add", 1>>,
      <<<<"1","0","a","m">>, "mon", "clear", 1>>,
      <<BadSlotKey, "mon", "add", 1>> }
\* two staff over all slots on Monday, one of them also on Saturday
ViewReqs ==
    StaffReqs(SlotKeys(ViewSlots), {"mon"}, {1, 2})
    \cup StaffReqs({<<"o","f","f","_","d","a","y">>, <<"1","0","a","m">>},
                   {"sat"}, {1})
    \cup PtReqs \cup BadReqs
\* three staff over the off-day, the leave and one work slot on Monday
OrderReqs ==
    StaffReqs(SlotKeys(ViewSlots) \ {PT_SLOT_KEY}, {"mon"}, {1, 2, 3})
    \cup PtReqs \cup BadReqs
\* requests to api_cell_block: <<slot_key, day_key>>
BlockReqs ==
    (SlotKeys(ViewSlots) \X {"mon"})
    \cup { <<PT_SLOT_KEY, BadDay>>, <<BadSlotKey, "mon">> }

Range(seq) == {seq[i] : i \in 1..Len(seq)}

\* [int(x) for x in ... if str(x).isdigit()]
digit_ids(ids) == SelectSeq(ids, LAMBDA x : x >= 0)

RECURSIVE unique_acc(_, _)
unique_acc(items, out) ==
    IF items = <<>> THEN out
    ELSE unique_acc(Tail(items),
                    IF Head(items) \in Range(out) THEN out
                    ELSE Append(out, Head(items)))

unique_keep_order(items) == unique_acc(items, <<>>)

\* ensure_defaults on stored cells that are empty ({}) or well-formed
ensure_stored(cs, sl) ==
    [k \in SlotKeys(sl) \cup DOMAIN cs |->
        IF k \in DOMAIN cs THEN cs[k]
        ELSE [d \in DayKeys |-> DefaultCell(SlotByKey(sl, k))]]

\* mutant: the other slots of the day are never consulted
is_staff_assigned_anywhere_never(cs, day_key, staff_id) == FALSE

is_staff_assigned_anywhere(cs, day_key, staff_id) ==
    \E k \in DOMAIN cs :
        /\ k \notin EXCLUSIVE_SLOT_KEYS
        /\ staff_id \in Range(digit_ids(cs[k][day_key].staff))

\* mutant: the exclusive slots are never consulted
is_staff_in_exclusive_never(cs, day_key, staff_id) == FALSE

is_staff_in_exclusive(cs, day_key, staff_id) ==
    \E ex \in EXCLUSIVE_SLOT_KEYS :
        /\ ex \in DOMAIN cs
        /\ staff_id \in Range(digit_ids(cs[ex][day_key].staff))

\* mutant: the new id goes to the front
add_id_front(ids, staff_id) ==
    IF staff_id \in Range(ids) THEN ids ELSE <<staff_id>> \o ids

\* if staff_id not in ids: ids.append(staff_id)
add_id(ids, staff_id) ==
    IF staff_id \in Range(ids) THEN ids ELSE Append(ids, staff_id)

\* adding to an exclusive row removes the staff from all other rows that day
remove_from_others(cs, slot_key, day_key, staff_id) ==
    [o \in DOMAIN cs |->
        IF o = slot_key THEN cs[o]
        ELSE LET other_ids == digit_ids(cs[o][day_key].staff)
                 new_other == SelectSeq(other_ids, LAMBDA x : x # staff_id)
             IN  IF new_other # other_ids
                 THEN [cs[o] EXCEPT ![day_key].staff = new_other]
                 ELSE cs[o]]

MsgInvalidDay == "Invalid day."
MsgBlocked == "This cell is blocked."
MsgPtOnly == "PT time only applies to PT row."
MsgMissingStaff == "Missing staff_id."
MsgStaffNotFound == "Staff not found."
MsgExclusive == "Not allowed: staff is Off Day / PH-AL on this day."
MsgAssigned == "Not allowed: staff already assigned on this day."
MsgInvalidAction == "Invalid action."
MsgCannotBlock == "This slot cannot be blocked."

\* a response and the stored cells after it; a response that is not ok
\* returns before schedule.save()
Ok(cs) == [status |-> 200, error |-> "", cells |-> cs]
Fail(st, msg, cs) == [status |-> st, error |-> msg, cells |-> cs]

api_cell_update(sl, cs, sm, slot_key, day_key, action, staff_id, pt_time) ==
    IF slot_key \notin SlotKeys(sl) THEN Fail(404, "Not Found", cs)
    ELSE IF day_key \notin DayKeys THEN Fail(400, MsgInvalidDay, cs)
    ELSE
    LET slot == SlotByKey(sl, slot_key)
        cs1 == ensure_stored(cs, sl)
        cell == cs1[slot_key][day_key]
        ids == unique_keep_order(digit_ids(cell.staff))
    IN  IF slot.allow_block /\ cell.blocked /\ action \in {"add", "remove"}
        THEN Fail(409, MsgBlocked, cs)
        ELSE IF action = "set_pt_time"
        THEN IF slot_key # PT_SLOT_KEY THEN Fail(400, MsgPtOnly, cs)
             ELSE Ok([cs1 EXCEPT
                         ![slot_key][day_key].pt_time = Strip(pt_time)])
        ELSE IF staff_id = NoStaffId THEN Fail(400, MsgMissingStaff, cs)
        ELSE IF staff_id \notin DOMAIN sm
        THEN Fail(404, MsgStaffNotFound, cs)
        ELSE IF action = "add"
        THEN IF /\ slot_key \notin EXCLUSIVE_SLOT_KEYS
                /\ is_staff_in_exclusive(cs1, day_key, staff_id)
             THEN Fail(409, MsgExclusive, cs)
             ELSE IF /\ slot_key \notin EXCLUSIVE_SLOT_KEYS
                     /\ is_staff_assigned_anywhere(cs1, day_key, staff_id)
             THEN Fail(409, MsgAssigned, cs)
             ELSE LET cs2 == [cs1 EXCEPT ![slot_key][day_key].staff =
                                             add_id(ids, staff_id)]
                  IN  Ok(IF slot_key \in EXCLUSIVE_SLOT_KEYS
                         THEN remove_from_others(cs2, slot_key, day_key,
                                                 staff_id)
                         ELSE cs2)
        ELSE IF action = "remove"
        THEN Ok([cs1 EXCEPT ![slot_key][day_key].staff =
                     SelectSeq(ids, LAMBDA x : x # staff_id)])
        ELSE Fail(400, MsgInvalidAction, cs)

\* cells[slot_key][day_key] of an unknown day raises KeyError: a 500
\* mutant: the week is saved with its defaults before the slot is examined
api_cell_block_saves_first(sl, cs, slot_key, day_key) ==
    IF slot_key \notin SlotKeys(sl) THEN Fail(404, "Not Found", cs)
    ELSE IF ~SlotByKey(sl, slot_key).allow_block
    THEN Fail(400, MsgCannotBlock, ensure_stored(cs, sl))
    ELSE IF day_key \notin DayKeys THEN Fail(500, "KeyError", cs)
    ELSE
    LET cs1 == ensure_stored(cs, sl)
        blocked == ~cs1[slot_key][day_key].blocked
    IN  Ok([cs1 EXCEPT
               ![slot_key][day_key].blocked = blocked,
               ![slot_key][day_key].staff =
                   IF blocked THEN <<>> ELSE cs1[slot_key][day_key].staff])

api_cell_block(sl, cs, slot_key, day_key) ==
    IF slot_key \notin SlotKeys(sl) THEN Fail(404, "Not Found", cs)
    ELSE IF ~SlotByKey(sl, slot_key).allow_block
    THEN Fail(400, MsgCannotBlock, cs)
    ELSE IF day_key \notin DayKeys THEN Fail(500, "KeyError", cs)
    ELSE
    LET cs1 == ensure_stored(cs, sl)
        blocked == ~cs1[slot_key][day_key].blocked
    IN  Ok([cs1 EXCEPT
               ![slot_key][day_key].blocked = blocked,
               ![slot_key][day_key].staff = IF blocked THEN <<>> ELSE @])

\* update_slot: this slot's allow_block becomes the posted checkbox
update_slot(sl, slot_key, allow_block) ==
    [i \in 1..Len(sl) |->
        IF sl[i].key = slot_key
        THEN [sl[i] EXCEPT !.allow_block = allow_block]
        ELSE sl[i]]

\* the ids of a stored cell, as a set
StaffSet(cs, k, d) ==
    IF k \in DOMAIN cs /\ d \in DayKeys THEN Range(cs[k][d].staff) ELSE {}

\* the history of one request: ids that left a cell leave its record, an
\* id that entered the cell is recorded last
NextAdded(log, old, new) ==
    [c \in DOMAIN log |->
        LET was == StaffSet(old, c[1], c[2])
            now == StaffSet(new, c[1], c[2])
            kept == SelectSeq(log[c], LAMBDA x : x \in now)
        IN  IF now \subseteq was THEN kept
            ELSE Append(kept, CHOOSE x \in now : x \notin was)]

ViewInit(staff_maps) ==
    /\ slots = ViewSlots
    /\ cells = <<>>
    /\ staff_map \in staff_maps
    /\ PdfCallIdle /\ PngIdle /\ BlendIdle /\ renders = <<>> /\ EdIdle
    /\ WeekIdle
    /\ view_resp = NoResponse
    /\ added = [c \in SlotKeys(ViewSlots) \X ViewDays |-> <<>>]

ApiCellUpdate(slot_key, day_key, action, staff_id, pt_time) ==
    LET r == api_cell_update(slots, cells, staff_map, slot_key, day_key,
                             action, staff_id, pt_time)
    IN  /\ cells' = r.cells
        /\ view_resp' = [status |-> r.status, error |-> r.error]
        /\ added' = NextAdded(added, cells, r.cells)
        /\ UNCHANGED <<slots, staff_map>>
        /\ UNCHANGED view_rest

ApiCellBlock(slot_key, day_key) ==
    LET r == api_cell_block(slots, cells, slot_key, day_key)
    IN  /\ cells' = r.cells
        /\ view_resp' = [status |-> r.status, error |-> r.error]
        /\ added' = NextAdded(added, cells, r.cells)
        /\ UNCHANGED <<slots, staff_map>>
        /\ UNCHANGED view_rest

UpdateSlot(slot_key, allow_block) ==
    /\ slots' = update_slot(slots, slot_key, allow_block)
    /\ view_resp' = [status |-> 302, error |-> ""]
    /\ UNCHANGED <<cells, staff_map, added>>
    /\ UNCHANGED view_rest

ViewNext(reqs) ==
    \/ \E q \in reqs : ApiCellUpdate(q[1], q[2], q[3], q[4], ViewPtTime)
    \/ \E b \in BlockReqs : ApiCellBlock(b[1], b[2])
    \/ \E k \in EditSlotKeys, ab \in BOOLEAN : UpdateSlot(k, ab)

ViewsInit == ViewInit(StaffMaps)
ViewsNext == ViewNext(ViewReqs)
SpecViews == ViewsInit /\ [][ViewsNext]_vars

OrderInit == ViewInit(OrderStaffMaps)
OrderNext == ViewNext(OrderReqs)
SpecOrder == OrderInit /\ [][OrderNext]_vars

\* C15: in every stored schedule the editor's requests can produce, a cell
\* with blocked = true has an empty staff list
C15_BlockedCellsHaveNoStaff ==
    \A k \in DOMAIN cells : \A d \in DayKeys :
        cells[k][d].blocked => cells[k][d].staff = <<>>

\* no staff member is in an exclusive slot and in another slot on one day
ExclusiveApart ==
    \A ex \in EXCLUSIVE_SLOT_KEYS : \A k \in DOMAIN cells \ {ex} :
        \A d \in DayKeys :
            StaffSet(cells, ex, d) \cap StaffSet(cells, k, d) = {}

\* the steps of api_cell_update that add staff_id to slot_key on day_key
AddStep(slot_key, day_key, staff_id) ==
    ApiCellUpdate(slot_key, day_key, "add", staff_id, ViewPtTime)

\* an add to a non-exclusive slot while the staff is in an exclusive slot
\* that day is answered 409 and stores nothing
ExclusiveRejects ==
    \A q \in ViewReqs :
        ( /\ q[1] \in SlotKeys(slots) \ EXCLUSIVE_SLOT_KEYS
          /\ \E ex \in EXCLUSIVE_SLOT_KEYS : q[4] \in StaffSet(cells, ex, q[2])
          /\ AddStep(q[1], q[2], q[4]) )
        => view_resp'.status = 409 /\ cells' = cells

\* an add to an exclusive slot that is answered 200 leaves the staff in that
\* slot and in no other slot that day
ExclusiveTakesOver ==
    \A q \in ViewReqs :
        ( /\ q[1] \in EXCLUSIVE_SLOT_KEYS
          /\ AddStep(q[1], q[2], q[4])
          /\ view_resp'.status = 200 )
        => /\ q[4] \in StaffSet(cells', q[1], q[2])
           /\ \A k \in DOMAIN cells' \ {q[1]} :
                  q[4] \notin StaffSet(cells', k, q[2])

\* C16: from an empty week no staff member is ever listed in an exclusive
\* slot and in another slot on the same day; an add to a non-exclusive slot
\* is answered 409 while the staff is in an exclusive slot that day, and an
\* add to an exclusive slot removes the staff from every other slot that day
C16_ExclusiveSlots ==
    /\ []ExclusiveApart
    /\ [][ExclusiveRejects /\ ExclusiveTakesOver]_vars

\* staff 1 is on leave on Monday, where an add was just refused for that,
\* and works the 10am slot on Saturday
C16_Witness ==
    /\ view_resp = [status |-> 409, error |-> MsgExclusive]
    /\ 1 \in StaffSet(cells, <<"p","h","_","a","l">>, "mon")
    /\ 1 \in StaffSet(cells, <<"1","0","a","m">>, "sat")

NoDuplicates(seq) == \A i, j \in 1..Len(seq) : seq[i] = seq[j] => i = j

\* C17: every cell's staff list has no duplicate ids and lists the ids in
\* the order in which requests put them there, so a removal leaves the
\* relative order of the remaining ids unchanged
C17_StaffInInsertionOrder ==
    \A c \in DOMAIN added :
        LET ids == IF c[1] \in DOMAIN cells THEN cells[c[1]][c[2]].staff
                   ELSE <<>>
        IN  NoDuplicates(ids) /\ ids = added[c]

\* after 1, 2, 3 were added to one cell in an order that is not the
\* numeric one, the middle one was removed
C17_Witness ==
    /\ view_resp.status = 200
    /\ \E c \in DOMAIN added :
          /\ c[1] \in DOMAIN cells
          /\ cells[c[1]][c[2]].staff = <<3, 1>>
          /\ \E k \in DOMAIN cells \ {c[1]} : cells[k][c[2]].staff = <<2>>

(***************************************************************************)
(* ScheduleWeek.save and the views that take a week_start                  *)
(***************************************************************************)
\* dates are proleptic Gregorian ordinals (date.toordinal()); ordinal 1 is
\* a Monday.  The window starts on Saturday 2023-12-30.
FirstDate == 738884
NumDates == 17
Dates == FirstDate..(FirstDate + NumDates - 1)

\* date.weekday(): Monday is 0 and Sunday is 6
weekday(d) == (d + 6) % 7

\* views._monday
monday(d) == d - weekday(d)

\* mutant: the date is stored as given
save_week_start_as_given(week_start) == week_start

\* ScheduleWeek.save: the week_start the row is written with
save_week_start(week_start) == week_start - weekday(week_start)

\* the views that look the week up with get_object_or_404
LookupViews == {"api_cell_update", "api_cell_block", "week_pdf", "week_png"}

WeekInit ==
    /\ PdfIdle /\ PngIdle /\ BlendIdle /\ renders = <<>> /\ EdIdle
    /\ view_resp = NoResponse /\ added = <<>>
    /\ weeks = {}
    /\ wk_call = NoCall
    /\ LateIdle

\* get_or_create(week_start=key): a missing row is created through save()
get_or_create(ws, key) ==
    IF key \in ws THEN ws ELSE ws \cup {save_week_start(key)}

\* home, open_week: get_or_create, then a redirect to the week editor
Home(d) ==
    /\ weeks' = get_or_create(weeks, monday(d))
    /\ wk_call' = [view |-> "home", date |-> d, key |-> monday(d),
                   status |-> 302]
    /\ UNCHANGED week_rest

\* week_editor: get_or_create, ensure_defaults, schedule.save()
WeekEditor(d) ==
    LET key == monday(d)
        row == IF key \in weeks THEN key ELSE save_week_start(key)
    IN  /\ weeks' = (get_or_create(weeks, key) \ {row})
                        \cup {save_week_start(row)}
        /\ wk_call' = [view |-> "week_editor", date |-> d, key |-> key,
                       status |-> 200]
        /\ UNCHANGED week_rest

\* api_cell_update, api_cell_block, week_pdf, week_png: get_object_or_404
WeekLookup(view, d) ==
    /\ wk_call' = [view |-> view, date |-> d, key |-> monday(d),
                   status |-> IF monday(d) \in weeks THEN 200 ELSE 404]
    /\ UNCHANGED weeks
    /\ UNCHANGED week_rest

\* a ScheduleWeek saved with any week_start (the admin's add form); the
\* unique week_start refuses a second row of one week
AdminSave(d) ==
    /\ weeks' = weeks \cup {save_week_start(d)}
    /\ wk_call' = [view |-> "admin", date |-> d, key |-> save_week_start(d),
                   status |-> IF save_week_start(d) \in weeks THEN 500
                              ELSE 302]
    /\ UNCHANGED week_rest

WeekNext ==
    \/ \E d \in Dates : Home(d)
    \/ \E d \in Dates : WeekEditor(d)
    \/ \E v \in LookupViews, d \in Dates : WeekLookup(v, d)
    \/ \E d \in Dates : AdminSave(d)

SpecWeek == WeekInit /\ [][WeekNext]_vars

\* m is the Monday of the week of d
MondayOf(m, d) == weekday(m) = 0 /\ m <= d /\ d - m <= 6

\* C18: save replaces week_start by the Monday 0 to 6 days earlier and is
\* idempotent, every stored week has a Monday week_start, and every view
\* looks up or creates the week under the Monday of the requested date
C18_WeekStartIsMonday ==
    /\ \A w \in weeks : weekday(w) = 0
    /\ wk_call # NoCall =>
          /\ MondayOf(wk_call.key, wk_call.date)
          /\ MondayOf(save_week_start(wk_call.date), wk_call.date)
          /\ save_week_start(save_week_start(wk_call.date))
                = save_week_start(wk_call.date)
          /\ wk_call.status \in {200, 302} => wk_call.key \in weeks

\* a Sunday was opened from the home page: its week is stored under the
\* Monday six days before, next to another week
C18_Witness ==
    /\ wk_call.view = "home"
    /\ weekday(wk_call.date) = 6
    /\ wk_call.key = wk_call.date - 6
    /\ wk_call.key \in weeks
    /\ \E w \in weeks : w # wk_call.key

(***************************************************************************)
(* build_pdf: the backgrounds of off, leave, pt and work rows              *)
(***************************************************************************)
\* one staff member, style 1 and one glyph width over the four seeded slots
TintIds == {1}
TintStyle == 1
TintGlyph == 5

\* the seeded slots after allow_block was switched on for the off-day slot
TintSlots ==
    << SlotOffDay(TRUE), SlotPT(TRUE), SlotPhAl(FALSE), Slot10am(FALSE) >>

TintInit ==
    /\ slots = TintSlots
    /\ cells = FreshCells(slots)
    /\ staff_map \in StaffMaps
    /\ style = 1 /\ glyph_w = 0 /\ edits = 0
    /\ pdf_pc = "input" /\ doc = None
    /\ font_files = TRUE /\ fonts = FALSE
    /\ PngIdle
    /\ OtherIdle

TintNext ==
    \/ \E k \in SlotKeys(slots), d \in InputDays, id \in TintIds :
          InputStaff(k, d, id)
    \/ \E k \in SlotKeys(slots), d \in InputDays : InputBlocked(k, d)
    \/ \E d \in InputDays, t \in PtTimes : InputPtTime(PT_SLOT_KEY, d, t)
    \/ BuildPdf(TintStyle, TintGlyph)

SpecTint == TintInit /\ [][TintNext]_vars

TintedKinds == {"off", "leave"}
Background(c, r) == final_background(doc.bk, c, r, NRows)
ShowsNames(r, i) == doc.rows[r].cells[i] # <<>>

\* C19 as stated: in an off or leave row the row tint is the final
\* background of the label cell and of all 7 day cells
C19_RowTintOnEntireRow ==
    Built =>
        \A r \in 1..NRows :
            doc.rows[r].kind \in TintedKinds =>
                \A c \in 0..NDays :
                    Background(c, r) = row_bg_of(doc.rows[r].kind)

\* C19 amended: in an off or leave row the row tint is the final background
\* of the label cell and of every day cell that shows a name, the weekend
\* columns included; a day cell that shows nothing has the empty-cell tint
C19_RowTintOnLabelAndNames ==
    Built =>
        \A r \in 1..NRows :
            doc.rows[r].kind \in TintedKinds =>
                /\ Background(0, r) = row_bg_of(doc.rows[r].kind)
                /\ \A i \in 1..NDays :
                      Background(i, r) =
                          IF ShowsNames(r, i) THEN row_bg_of(doc.rows[r].kind)
                          ELSE "empty_cell_bg"

\* C19 witness: an off row and a leave row, each with a name on Saturday
\* under the row tint and with an empty Monday under the empty-cell tint
C19_Witness ==
    /\ Built
    /\ \A kind \in TintedKinds :
          \E r \in 1..NRows :
              /\ doc.rows[r].kind = kind
              /\ ShowsNames(r, 6) /\ Background(6, r) = row_bg_of(kind)
              /\ ~ShowsNames(r, 1) /\ Background(1, r) = "empty_cell_bg"
              /\ Background(0, r) = row_bg_of(kind)

\* the cell is blocked on a slot that allows blocking
BlockOverridden(r, i) == RowSlot(r).allow_block /\ CellAt(r, i).blocked

\* C20 as stated: in every body row, of whatever kind, a Saturday or Sunday
\* cell that shows names and is not block-overridden has the weekend tint
C20_WeekendTintInEveryRow ==
    Built =>
        \A r \in 1..NRows : \A i \in {sat_col, sun_col} :
            (ShowsNames(r, i) /\ ~BlockOverridden(r, i))
                => Background(i, r) = "weekend_bg"

\* C20 amended: a Saturday or Sunday cell that shows names and is not
\* block-overridden has the weekend tint in a work row, and the row's own
\* tint in an off, leave or pt row
C20_WeekendTintInWorkRows ==
    Built =>
        \A r \in 1..NRows : \A i \in {sat_col, sun_col} :
            (ShowsNames(r, i) /\ ~BlockOverridden(r, i))
                => Background(i, r) =
                      IF doc.rows[r].kind = "work" THEN "weekend_bg"
                      ELSE row_bg_of(doc.rows[r].kind)

\* C20 witness: a work row whose Saturday cell shows a name under the
\* weekend tint, above or below a pt row whose Sunday cell shows a name
\* under the pt tint
C20_Witness ==
    /\ Built
    /\ \E r \in 1..NRows :
          /\ doc.rows[r].kind = "work"
          /\ ShowsNames(r, sat_col) /\ Background(sat_col, r) = "weekend_bg"
    /\ \E r \in 1..NRows :
          /\ doc.rows[r].kind = "pt"
          /\ ShowsNames(r, sun_col) /\ Background(sun_col, r) = "pt_row_bg"

(***************************************************************************)
(* build_pdf: the kind of a visible row                                    *)
(***************************************************************************)
\* slot keys and labels of one-slot lists; the slot has staff 1 on Monday
KindKeys ==
    { <<"p","t">>,
      <<"P","T">>,
      <<"o","f","f","_","d","a","y">>,
      <<"p","h","_","a","l">>,
      <<"1","0","a","m">>,
      <<"d","a","y","o","f","f">>,
      <<"r","e","c","e","p","t","i","o","n">>,
      <<"a","l","p","h","a">> }
KindLabels ==
    { <<"P","T">>,
      <<"p","t"," ","E","v","e","n","i","n","g">>,
      <<"P","t","o","l","e","m","y">>,
      <<"P","T"," ","o","f","f">>,
      <<"O","f","f"," ","D","a","y">>,
      <<"O","f","f"," ","/"," ","A","L">>,
      <<"P","H","*","/","A","L","@">>,
      <<"1","0","a","m">>,
      <<"R","e","c","e","p","t","i","o","n">>,
      <<" ","P","t"," ">>,
      <<"H","a","l","f"," ","D","a","y">> }
KindSlot(k, l) ==
    [key |-> k, label |-> l, allow_block |-> FALSE,
     pt_default_time |-> <<"7","-","1","1">>]

KindInit ==
    /\ \E k \in KindKeys, l \in KindLabels : slots = << KindSlot(k, l) >>
    /\ cells = [FreshCells(slots) EXCEPT ![slots[1].key]["mon"].staff = <<1>>]
    /\ staff_map \in StaffMaps
    /\ style = 1 /\ glyph_w = 0 /\ edits = 0
    /\ pdf_pc = "input" /\ doc = None
    /\ font_files = TRUE /\ fonts = FALSE
    /\ PngIdle
    /\ OtherIdle

KindNext == BuildPdf(TintStyle, TintGlyph)

SpecKind == KindInit /\ [][KindNext]_vars

\* the text with surrounding blanks removed, in lower case
Folded(s) == Lower(Strip(s))
IsPt(s) == Folded(s) = <<"p","t">>
HasOff(s) == Contains(Folded(s), <<"o","f","f">>)
HasLeave(s) ==
    Contains(Folded(s), <<"p","h">>) \/ Contains(Folded(s), <<"a","l">>)

\* the kind by precedence: pt, then off, then leave, then work
KindBy(pt, slot) ==
    IF pt THEN "pt"
    ELSE IF HasOff(slot.key) \/ HasOff(slot.label) THEN "off"
    ELSE IF HasLeave(slot.key) \/ HasLeave(slot.label) THEN "leave"
    ELSE "work"

\* C21 as stated: a visible row is pt when its key or label is "pt" in any
\* case, off when key or label contains "off", leave when key or label
\* contains "ph" or "al", work otherwise; pt goes before off, off before leave
C21_KindByKeyOrLabel ==
    Built =>
        \A r \in 1..NRows :
            doc.rows[r].kind =
                KindBy(IsPt(RowSlot(r).key) \/ IsPt(RowSlot(r).label),
                       RowSlot(r))

\* C21 amended: as stated, and a row is also pt when its label starts with
\* "pt " in any case
C21_KindByKeyLabelOrPrefix ==
    Built =>
        \A r \in 1..NRows :
            doc.rows[r].kind =
                KindBy(\/ IsPt(RowSlot(r).key) \/ IsPt(RowSlot(r).label)
                       \/ StartsWith(Folded(RowSlot(r).label), <<"p","t"," ">>),
                       RowSlot(r))

\* C21 witness: a row whose label starts with "pt " and contains "off",
\* under a key that contains "al", is a pt row
C21_Witness ==
    /\ Built /\ NRows = 1
    /\ doc.rows[1].kind = "pt"
    /\ ~IsPt(RowSlot(1).key) /\ ~IsPt(RowSlot(1).label)
    /\ HasOff(RowSlot(1).label) /\ HasLeave(RowSlot(1).key)

(***************************************************************************)
(* build_pdf: staff ids without an entry in the staff map                  *)
(***************************************************************************)
\* the ids of the cell that the staff map knows
KnownIds(r, i) ==
    SelectSeq(CellAt(r, i).staff, LAMBDA id : id \in DOMAIN staff_map)

\* C22: ids that are not in the staff map are never rendered (a cell shows
\* what it would show without them) and never stop the build, and a cell
\* all of whose ids are unknown is rendered like a cell without staff:
\* blank text under the empty-cell tint
C22_UnknownIdsAreBlank ==
    Built =>
        \A r \in 1..NRows : \A i \in 1..NDays :
            /\ doc.rows[r].cells[i] =
                  render_cell(RowSlot(r), doc.rows[r].kind,
                              [CellAt(r, i) EXCEPT !.staff = KnownIds(r, i)],
                              staff_map).text
            /\ KnownIds(r, i) = <<>> =>
                  /\ doc.rows[r].cells[i] = <<>>
                  /\ final_background(doc.bk, i, r, NRows) = "empty_cell_bg"

\* C22 witness: a displayed cell holding only the unknown id 9 is blank under
\* the empty-cell tint, next to a cell of the same row that shows a name
C22_Witness ==
    /\ Built
    /\ \E r \in 1..NRows : \E i, j \in 1..NDays :
          /\ CellAt(r, i).staff = <<9>>
          /\ doc.rows[r].cells[i] = <<>>
          /\ final_background(doc.bk, i, r, NRows) = "empty_cell_bg"
          /\ doc.rows[r].cells[j] # <<>>

(***************************************************************************)
(* build_pdf: column sizing when pdfmetrics.stringWidth raises             *)
(***************************************************************************)
ShiftText == <<"S","h","i","f","t">>
\* one string of each kind the sizing measures: the fixed header label, a
\* slot label, a day name, a date and a cell line
MeasuredTexts ==
    { ShiftText, <<"1","0","a","m">>, <<"P","T">>, <<"M","o","n">>,
      <<"0","1"," ","J","a","n">>, Alice }

\* a measurement: the width, or the exception
measure(text, g, bad) ==
    IF text \in bad THEN [ok |-> FALSE, w |-> 0]
    ELSE [ok |-> TRUE, w |-> stringWidth(text, g)]

\* try: w = stringWidth(...); if w > max: max = w / except: pass
guarded_max(texts, g, bad, init) ==
    SeqMax([i \in 1..Len(texts) |-> measure(texts[i], g, bad).w], init)

\* lines 376-384; the measurement of "Shift" stands outside any try
shift_sizing(vis, g, bad) ==
    LET first == measure(ShiftText, g, bad)
        shift_max ==
            guarded_max([i \in 1..Len(vis) |-> label_clean(vis[i].label)],
                        g, bad, first.w)
    IN  [raised |-> ~first.ok,
         w |-> clamp(QInt(shift_max + (cell_pad_x * 2) + shift_extra_pad),
                     QInt(min_shift_w), QInt(max_shift_w))]

\* lines 386-429: wd and wdt are 0.0 after an exception, a line is skipped
day_sizing(vis, kinds, cs, sm, g, bad) ==
    LET hdr == SeqMax([i \in 1..NDays |->
                          measure(header_texts[i].day, g, bad).w
                          + measure(header_texts[i].date_txt, g, bad).w
                          + header_need_pad], 0)
        lines_of(r, i) ==
            LET cell == cs[vis[r].key][DAYS[i][1]]
                preview == preview_of(kinds[r], cell, sm)
            IN  IF vis[r].allow_block /\ cell.blocked THEN <<>>
                ELSE SelectSeq(Split(preview, BR), NonBlank)
        all_lines == Flatten([r \in 1..Len(vis) |->
                        Flatten([i \in 1..NDays |-> lines_of(r, i)])])
        day_max == guarded_max(all_lines, g, bad, hdr)
    IN  clamp(QInt(day_max + (cell_pad_x * 2) + day_extra_pad),
              QInt(min_day_w), QInt(max_day_w))

\* the sizing pass of build_pdf: an exception at line 376 leaves build_pdf
column_sizing(sl, cs, sm, g, bad) ==
    LET vis == visible_slots(sl, cs)
        kinds == [r \in 1..Len(vis) |-> slot_kind(vis[r])]
        sh == shift_sizing(vis, g, bad)
    IN  IF sh.raised
        THEN [done |-> TRUE, raised |-> TRUE,
              shift_w |-> <<0, 1>>, day_w |-> <<0, 1>>]
        ELSE [done |-> TRUE, raised |-> FALSE, shift_w |-> sh.w,
              day_w |-> day_sizing(vis, kinds, cs, sm, g, bad)]

\* Alice works the 10am slot and the PT slot on Monday
MetricCells(sl) ==
    [FreshCells(sl) EXCEPT ![<<"1","0","a","m">>]["mon"].staff = <<1>>,
                           ![PT_SLOT_KEY]["mon"].staff = <<1>>]

MetricInit ==
    /\ slots \in SlotLists
    /\ cells = MetricCells(slots)
    /\ staff_map \in StaffMaps
    /\ PdfCallIdle /\ PngIdle
    /\ BlendIdle /\ renders = <<>> /\ EdIdle
    /\ view_resp = NoResponse /\ added = <<>>
    /\ weeks = {} /\ wk_call = NoCall
    /\ RaceIdle /\ DeleteIdle
    /\ bad_texts \in SUBSET MeasuredTexts
    /\ sizing = NoSizing

metric_rest ==
    <<pdf_vars, png_vars, blend_vars, renders, ed_vars, view_vars, week_vars,
      rq, week_store, rewritten>>

\* the sizing pass of one build_pdf call under the metric g
SizeColumns(g) ==
    /\ ~sizing.done
    /\ sizing' = column_sizing(slots, cells, staff_map, g, bad_texts)
    /\ UNCHANGED bad_texts
    /\ UNCHANGED metric_rest

MetricNext == \E g \in GlyphWidths : SizeColumns(g)

SpecMetric == MetricInit /\ [][MetricNext]_vars

\* the width of a string, zero when its measurement fails
width_or_zero(text, g) == IF text \in bad_texts THEN 0 ELSE stringWidth(text, g)

\* the widest of the given strings and of a start value
RECURSIVE widest(_, _, _)
widest(texts, g, init) ==
    IF texts = {} THEN init
    ELSE LET t == CHOOSE x \in texts : TRUE
             w == width_or_zero(t, g)
         IN  widest(texts \ {t}, g, IF w > init THEN w ELSE init)

\* C23: a failing measurement of any one string (the fixed "Shift" label, a
\* slot label, a day or date header, a cell line) counts as zero width and
\* never aborts the pass: shift_w is then the clamped widest label, and
\* day_w is computed as well
C23_FailedMeasureIsZeroWidth ==
    sizing.done =>
        /\ ~sizing.raised
        /\ \E g \in GlyphWidths :
              sizing.shift_w =
                  clamp(QInt(widest({ShiftText, <<"P","T">>, <<"1","0","a","m">>},
                                    g, 0)
                             + (cell_pad_x * 2) + shift_extra_pad),
                        QInt(min_shift_w), QInt(max_shift_w))
        /\ QLe(QInt(min_day_w), sizing.day_w)

(***************************************************************************)
(* build_png: the render dpi handed to a backend                           *)
(***************************************************************************)
\* the page the backend b assumes (lines 880-881, 908-909, 962-963)
PageOf(b) == IF b = "fitz" THEN fitz_page ELSE a4_landscape_page

\* the backend that holds render_dpi2: the last one attempted that got as far
\* as the cap
Rendering == png_pc \in {"fitz_render", "gs_tmp", "pdf2image_convert"}

\* pixels of a page rendered at rd dpi, every side rounded up
CeilDiv(a, b) == (a + b - 1) \div b
RenderedPixels(page, rd) == CeilDiv(page.w * rd, 720) * CeilDiv(page.h * rd, 720)

DpiBounds ==
    Rendering =>
        LET target == Max2(200, Min2(IF dpi_arg = 0 THEN 600 ELSE dpi_arg, 900))
        IN  /\ render_dpi2 >= 200
            /\ render_dpi2 <= 1200
            /\ 4 * render_dpi2 <= 5 * target
            /\ RenderedPixels(PageOf(attempts[Len(attempts)]), render_dpi2) <= 26000000

\* a step that applies the cap records no exception and produces no outcome
CapIsSilent ==
    render_dpi2' # render_dpi2 =>
        /\ caught' = caught
        /\ last_error' = last_error
        /\ result' = result
        /\ render_dpi2' \in 200..render_dpi

\* C24: for every requested dpi the render dpi handed to a backend is at
\* least 200, at most 1200 and at most 1.25 times the target dpi; the page
\* rendered at it has at most 26,000,000 pixels; applying the cap raises
\* nothing.
C24_RenderDpiWithinCap == []DpiBounds /\ [][CapIsSilent]_vars

\* C24 witness: a request of 900 would render at 1125, and the cap hands 518
\* to PyMuPDF
C24_Witness ==
    /\ png_pc = "fitz_render"
    /\ dpi_arg = 900
    /\ render_dpi = 1125
    /\ render_dpi2 = 518
    /\ RenderedPixels(fitz_page, 519) > max_pixels

(***************************************************************************)
(* api_cell_update, api_cell_block: double assignment and failed requests  *)
(***************************************************************************)
\* no staff id is in the cells of two slots on one day
OneSlotPerDay ==
    \A k1, k2 \in DOMAIN cells : \A d \in DayKeys :
        k1 # k2 => StaffSet(cells, k1, d) \cap StaffSet(cells, k2, d) = {}

\* staff_id is in the cell of some non-exclusive slot on day_key
WorksThatDay(day_key, staff_id) ==
    \E k \in DOMAIN cells \ EXCLUSIVE_SLOT_KEYS :
        staff_id \in StaffSet(cells, k, day_key)

\* an add to any of the given slots for a staff who works that day is
\* answered 409 and stores nothing
AddRejected(slot_keys) ==
    \A q \in ViewReqs :
        ( /\ q[1] \in slot_keys
          /\ WorksThatDay(q[2], q[4])
          /\ AddStep(q[1], q[2], q[4]) )
        => view_resp'.status = 409 /\ cells' = cells

\* C25 as stated: from an empty week each staff id is in the cell of at most
\* one slot per day, and an add to any slot for a staff who is already in a
\* non-exclusive slot that day is answered 409 and changes nothing.
C25_OneSlotPerDay ==
    /\ []OneSlotPerDay
    /\ [][AddRejected(SlotKeys(slots))]_vars

\* C25 amended: from an empty week each staff id is in the cell of at most
\* one slot per day; an add to a non-exclusive slot for a staff who is
\* already in a non-exclusive slot that day, the target cell included, is
\* answered 409 and changes nothing, while an add to an exclusive slot whose
\* cell is not blocked is answered 200 and moves the staff there.
C25_OneSlotPerDayExclusiveMoves ==
    /\ []OneSlotPerDay
    /\ [][AddRejected(SlotKeys(slots) \ EXCLUSIVE_SLOT_KEYS)]_vars
    /\ [][\A q \in ViewReqs :
            ( /\ q[1] \in EXCLUSIVE_SLOT_KEYS
              /\ WorksThatDay(q[2], q[4])
              /\ ~(q[1] \in DOMAIN cells /\ cells[q[1]][q[2]].blocked)
              /\ AddStep(q[1], q[2], q[4]) )
            => /\ view_resp'.status = 200
               /\ q[4] \in StaffSet(cells', q[1], q[2])
               /\ ~WorksThatDay(q[2], q[4])']_vars

\* C25 witness: staff 1 works the 10am slot on Monday, staff 2 the PT slot,
\* and an add was just refused because the staff already works that day
C25_Witness ==
    /\ view_resp = [status |-> 409, error |-> MsgAssigned]
    /\ 1 \in StaffSet(cells, <<"1","0","a","m">>, "mon")
    /\ 2 \in StaffSet(cells, PT_SLOT_KEY, "mon")

\* a step of api_cell_update or api_cell_block
ApiStep ==
    \/ \E q \in ViewReqs : ApiCellUpdate(q[1], q[2], q[3], q[4], ViewPtTime)
    \/ \E b \in BlockReqs : ApiCellBlock(b[1], b[2])

\* C26: a call of api_cell_update or api_cell_block that is not answered 200
\* (invalid day, blocked cell, PT time on another row, missing or unknown
\* staff_id, exclusivity or double-assignment conflict, invalid action, slot
\* that cannot be blocked) leaves the stored schedule as it was.
C26_FailedCallStoresNothing ==
    [][(ApiStep /\ view_resp'.status # 200) => cells' = cells]_vars

\* C26 witness: the week holds staff 1 in the 10am slot on Monday, and a
\* request to block a cell of that slot was just refused
C26_Witness ==
    /\ view_resp = [status |-> 400, error |-> MsgCannotBlock]
    /\ <<"1","0","a","m">> \in DOMAIN cells
    /\ cells[<<"1","0","a","m">>]["mon"].staff = <<1>>

(***************************************************************************)
(* staff_delete: the id leaves every stored week                           *)
(***************************************************************************)
\* mutant: the id stays in the list
without_id_kept(ids, staff_id) == digit_ids(ids)

\* new_ids = [x for x in ids if x != staff.id] (lines 99-100)
without_id(ids, staff_id) == SelectSeq(digit_ids(ids), LAMBDA x : x # staff_id)

\* changed (lines 91-104): some cell of the week lists the id
week_changed(cs, staff_id) ==
    \E k \in DOMAIN cs : \E d \in DOMAIN cs[k] :
        without_id(cs[k][d].staff, staff_id) # digit_ids(cs[k][d].staff)

\* the cells of one week after the loop of lines 92-104: only a cell whose
\* list changes is assigned
week_without(cs, staff_id) ==
    [k \in DOMAIN cs |-> [d \in DOMAIN cs[k] |->
        IF without_id(cs[k][d].staff, staff_id) # digit_ids(cs[k][d].staff)
        THEN [cs[k][d] EXCEPT !.staff = without_id(@, staff_id)]
        ELSE cs[k][d]]]

\* staff_delete: 404 for an unknown id; otherwise every week that lists the
\* id is saved without it, and the Staff row is deleted
staff_delete(store, sm, staff_id) ==
    IF staff_id \notin DOMAIN sm
    THEN [status |-> 404, store |-> store, saved |-> {}, staff |-> sm]
    ELSE [status |-> 302,
          store |-> [w \in DOMAIN store |->
                        IF week_changed(store[w], staff_id)
                        THEN week_without(store[w], staff_id) ELSE store[w]],
          saved |-> {w \in DOMAIN store : week_changed(store[w], staff_id)},
          staff |-> [i \in DOMAIN sm \ {staff_id} |-> sm[i]]]

NumStoredWeeks == 2
StoredWeeks == 1..NumStoredWeeks
DeleteSlots == << SlotOffDay(FALSE), SlotPT(TRUE), Slot10am(FALSE) >>
\* the weeks the editor can have stored for three staff
WeekContents ==
    LET base == FreshCells(DeleteSlots) IN
    { base,
      [base EXCEPT ![<<"1","0","a","m">>]["mon"].staff = <<3, 1, 2>>],
      [base EXCEPT ![<<"1","0","a","m">>]["mon"].staff = <<2, 1>>,
                   ![<<"o","f","f","_","d","a","y">>]["sat"].staff = <<3>>],
      [base EXCEPT ![PT_SLOT_KEY]["mon"].staff = <<1>>,
                   ![PT_SLOT_KEY]["mon"].pt_time = ViewPtTime,
                   ![<<"1","0","a","m">>]["sat"].staff = <<2, 3>>] }

DeleteInit ==
    /\ slots = DeleteSlots
    /\ cells = <<>>
    /\ staff_map \in OrderStaffMaps
    /\ PdfCallIdle /\ PngIdle /\ BlendIdle /\ renders = <<>> /\ EdIdle
    /\ view_resp = NoResponse /\ added = <<>>
    /\ weeks = {} /\ wk_call = NoCall
    /\ MetricIdle /\ RaceIdle
    /\ week_store \in [StoredWeeks -> WeekContents]
    /\ rewritten = {}

delete_rest ==
    <<slots, cells, style, glyph_w, edits, pdf_pc, doc, font_files, fonts,
      png_vars, blend_vars, renders, ed_vars, added, week_vars,
      bad_texts, sizing, rq>>

StaffDelete(staff_id) ==
    LET r == staff_delete(week_store, staff_map, staff_id)
    IN  /\ week_store' = r.store
        /\ rewritten' = r.saved
        /\ staff_map' = r.staff
        /\ view_resp' = [status |-> r.status, error |-> ""]
        /\ UNCHANGED delete_rest

DeleteNext == \E id \in 1..3 : StaffDelete(id)

SpecDelete == DeleteInit /\ [][DeleteNext]_vars

\* the ids one cell of the store lists
StoredIds(store, w, k, d) == Range(store[w][k][d].staff)

\* no stored cell lists an id without a Staff row
NoDeletedIdStored ==
    \A w \in DOMAIN week_store : \A k \in DOMAIN week_store[w] :
        \A d \in DayKeys :
            StoredIds(week_store, w, k, d) \subseteq DOMAIN staff_map

\* a completed staff_delete keeps every other id in its cell in the same
\* order, and saves exactly the weeks that listed the id
DeleteKeepsTheRest ==
    \A id \in DOMAIN staff_map \ DOMAIN staff_map' :
        /\ \A w \in DOMAIN week_store : \A k \in DOMAIN week_store[w] :
              \A d \in DayKeys :
                 /\ week_store'[w][k][d].staff =
                       SelectSeq(week_store[w][k][d].staff, LAMBDA x : x # id)
                 /\ week_store'[w][k][d].blocked = week_store[w][k][d].blocked
                 /\ week_store'[w][k][d].pt_time = week_store[w][k][d].pt_time
        /\ \A w \in DOMAIN week_store :
              w \in rewritten' <=>
                 \E k \in DOMAIN week_store[w] : \E d \in DayKeys :
                    id \in StoredIds(week_store, w, k, d)

\* C27: after staff_delete(staff_id) no cell of any slot, day or week lists
\* the deleted id; every other id stays in its cell in the same relative
\* order; a week that did not list the id is not rewritten.
C27_DeletedIdLeavesEveryWeek ==
    /\ []NoDeletedIdStored
    /\ [][DeleteKeepsTheRest]_vars

\* C27 witness: staff 1 was deleted; week 1, which listed 3, 1, 2 in one
\* cell, now lists 3, 2 there and was saved; week 2 listed nobody and was
\* not saved
C27_Witness ==
    /\ view_resp.status = 302
    /\ 1 \notin DOMAIN staff_map
    /\ week_store[1][<<"1","0","a","m">>]["mon"].staff = <<3, 2>>
    /\ week_store[2] = FreshCells(DeleteSlots)
    /\ rewritten = {1}

(***************************************************************************)
(* ScheduleWeek.ensure_defaults called again on its own result             *)
(***************************************************************************)
\* the key of a slot that is no longer in the slot list
GoneSlotKey == <<"9","a","m">>
\* stored values with and without an entry for the slot that is gone
AgainPriors ==
    {Dict((<<"p","t">> :> e1) @@ (<<"1","0","a","m">> :> e2)) :
        e1 \in EdSlotEntries, e2 \in {NotDict, Dict("mon" :> Dict("staff" :> <<1>>))}}
    \cup
    {Dict((<<"p","t">> :> e1) @@ (GoneSlotKey :> e3)) :
        e1 \in EdSlotEntries,
        e3 \in {NotDict, Dict(EmptyMap), Dict("mon" :> Dict("staff" :> <<2>>))}}

AgainInit ==
    /\ slots \in EdSlotLists /\ cells = <<>> /\ staff_map = <<>>
    /\ PdfCallIdle /\ PngIdle /\ BlendIdle /\ renders = <<>> /\ ViewIdle
    /\ ed_pc = "call"
    /\ raw_prior \in AgainPriors
    /\ raw_cells = raw_prior

\* a second call with the same slots on the mapping the first call left
EnsureDefaultsAgain ==
    /\ ed_pc = "done"
    /\ raw_cells' = ensure_defaults(raw_cells, slots)
    /\ ed_pc' = "again"
    /\ UNCHANGED raw_prior
    /\ UNCHANGED ed_rest

AgainNext == EnsureDefaults \/ EnsureDefaultsAgain

SpecAgain == AgainInit /\ [][AgainNext]_vars

\* every staff, blocked or pt_time entry a cell of a given slot had is there
\* with the same value, and the entry of a slot key outside the list is as
\* it was
NonDestructive ==
    ed_pc \in {"done", "again"} =>
        /\ \A i \in 1..Len(slots) : \A d \in DayKeys :
              \A f \in DOMAIN EdCellBefore(slots[i].key, d) :
                 raw_cells.items[slots[i].key].items[d].items[f]
                     = EdCellBefore(slots[i].key, d)[f]
        /\ \A k \in DOMAIN raw_prior.items \ SlotKeys(slots) :
              /\ k \in DOMAIN raw_cells.items
              /\ raw_cells.items[k] = raw_prior.items[k]

\* the second call leaves the mapping as the first call made it
SecondCallChangesNothing == ed_pc = "done" => raw_cells' = raw_cells

\* C28: ensure_defaults never changes the staff, blocked or pt_time value a
\* cell already has, leaves the entries of slot keys outside the given slot
\* list untouched, and a second call with the same slots changes nothing.
C28_DefaultsIdempotent ==
    /\ []NonDestructive
    /\ [][SecondCallChangesNothing]_vars

\* C28 witness: after two calls the PT cell of Monday still has its stored
\* staff and pt_time, and the entry of the slot that is gone is as stored
C28_Witness ==
    /\ ed_pc = "again"
    /\ EdCellBefore(<<"p","t">>, "mon") =
          ("staff" :> <<1, 2>>) @@ ("blocked" :> FALSE) @@ ("pt_time" :> EdPtTime)
    /\ EdPtTimeAt(<<"p","t">>, "mon") = EdPtTime
    /\ raw_cells.items[<<"p","t">>].items["mon"].items["staff"] = <<1, 2>>
    /\ raw_cells.items[GoneSlotKey] = Dict("mon" :> Dict("staff" :> <<2>>))

(***************************************************************************)
(* Two requests on one week.  Each view reads the ScheduleWeek row at its  *)
(* start (get_object_or_404), works on that copy and, when it succeeds,    *)
(* writes the whole cells mapping back with schedule.save(); the database  *)
(* runs in autocommit mode and no view takes a lock.                       *)
(***************************************************************************)
Procs == {"a", "b"}

\* requests: <<view, slot_key, day_key, action, staff_id>>
UpdateReq(k, d, action, id) == <<"api_cell_update", k, d, action, id>>
BlockReq(k, d) == <<"api_cell_block", k, d, "", NoStaffId>>
NoReq == <<"none", <<>>, "", "", NoStaffId>>

RaceSlotKeys == {<<"1","0","a","m">>, PT_SLOT_KEY, <<"o","f","f","_","d","a","y">>}
RaceReqs(p) ==
    IF p = "a"
    THEN {UpdateReq(k, "mon", "add", 1) : k \in RaceSlotKeys}
    ELSE {UpdateReq(k, "mon", "add", id) : k \in RaceSlotKeys, id \in {1, 2}}
         \cup {UpdateReq(PT_SLOT_KEY, "mon", "set_pt_time", NoStaffId),
               BlockReq(PT_SLOT_KEY, "mon")}

IdleProc == [pc |-> "idle", req |-> NoReq, copy |-> <<>>, status |-> 0,
             order |-> 0, stale |-> FALSE]

\* the view of request q run on the copy cs of the week
run_view(sl, cs, sm, q) ==
    IF q[1] = "api_cell_block" THEN api_cell_block(sl, cs, q[2], q[3])
    ELSE api_cell_update(sl, cs, sm, q[2], q[3], q[4], q[5], ViewPtTime)

RaceInit ==
    /\ slots = ViewSlots
    /\ cells = <<>>
    /\ staff_map \in StaffMaps
    /\ PdfCallIdle /\ PngIdle /\ BlendIdle /\ renders = <<>> /\ EdIdle
    /\ view_resp = NoResponse /\ added = <<>>
    /\ weeks = {} /\ wk_call = NoCall
    /\ MetricIdle /\ DeleteIdle
    /\ rq = [p \in Procs |-> IdleProc]

race_rest ==
    <<style, glyph_w, edits, pdf_pc, doc, font_files, fonts, png_vars,
      blend_vars, renders, ed_vars, view_vars, week_vars, bad_texts, sizing,
      week_store, rewritten>>

\* schedule = get_object_or_404(ScheduleWeek, ...): the request reads the row
LoadWeek(p, q) ==
    /\ rq[p].pc = "idle"
    /\ rq' = [rq EXCEPT ![p] = [IdleProc EXCEPT !.pc = "loaded", !.req = q,
                                               !.copy = cells]]
    /\ UNCHANGED <<slots, cells, staff_map>>
    /\ UNCHANGED race_rest

\* the rest of the view: checks and changes on the copy, then schedule.save()
\* writes the copy's cells over the stored ones when the request succeeded
FinishRequest(p) ==
    /\ rq[p].pc = "loaded"
    /\ LET r == run_view(slots, rq[p].copy, staff_map, rq[p].req)
           saved == Cardinality({o \in Procs : rq[o].order > 0})
       IN  /\ cells' = IF r.status = 200 THEN r.cells ELSE cells
           /\ rq' = [rq EXCEPT ![p] =
                        [pc |-> "done", req |-> rq[p].req, copy |-> r.cells,
                         status |-> r.status,
                         order |-> IF r.status = 200 THEN saved + 1 ELSE 0,
                         stale |-> rq[p].copy # cells]]
    /\ UNCHANGED <<slots, staff_map>>
    /\ UNCHANGED race_rest

RaceNext ==
    \/ \E p \in Procs : \E q \in RaceReqs(p) : LoadWeek(p, q)
    \/ \E p \in Procs : FinishRequest(p)

SpecRace == RaceInit /\ [][RaceNext]_vars

\* what a successful request q wrote is in the cells cs
Effect(q, cs) ==
    /\ q[2] \in DOMAIN cs
    /\ IF q[1] = "api_cell_block" THEN cs[q[2]][q[3]].blocked
       ELSE IF q[4] = "add" THEN q[5] \in StaffSet(cs, q[2], q[3])
       ELSE cs[q[2]][q[3]].pt_time # DefaultCell(SlotByKey(slots, q[2])).pt_time

\* the later request q2 takes back what the add q1 wrote: it blocks the
\* cell, or it moves the staff to an exclusive slot of that day
Supersedes(q2, q1) ==
    /\ q1[4] = "add" /\ q1[3] = q2[3]
    /\ \/ q2[1] = "api_cell_block" /\ q2[2] = q1[2]
       \/ /\ q2[4] = "add" /\ q2[5] = q1[5]
          /\ q2[2] \in EXCLUSIVE_SLOT_KEYS /\ q2[2] # q1[2]

NoLostWrite ==
    \A p \in Procs :
        (rq[p].pc = "done" /\ rq[p].status = 200) =>
            \/ Effect(rq[p].req, cells)
            \/ \E o \in Procs \ {p} :
                  /\ rq[o].pc = "done" /\ rq[o].status = 200
                  /\ rq[o].order > rq[p].order
                  /\ Supersedes(rq[o].req, rq[p].req)

\* C29: when two cell-write requests on one week interleave, what each
\* successful request wrote is in the stored schedule unless the later one
\* took it back, and the stored schedule has no staff in an exclusive slot
\* and another slot, nor in two slots, on one day.
C29_NoLostWrite ==
    /\ NoLostWrite
    /\ ExclusiveApart
    /\ OneSlotPerDay

(***************************************************************************)
(* build_pdf: the row-visibility test against the rendered cells           *)
(***************************************************************************)
\* C30: every body row build_pdf emits has at least one day cell that shows
\* a staff name; no row is emitted with all 7 day cells rendered blank.
C30_EveryRowShowsAName ==
    Built => \A r \in 1..NRows : \E i \in 1..NDays : ShowsNames(r, i)

====
